---- MODULE Spec2Model ----
(***************************************************************************)
(* A model of the monotonicity / flux-correction engine of remhos.cpp:     *)
(* DofInfo (topology tables), the discrete upwinding matrix, the low and   *)
(* high order updates, the FCT blend and FE_Evolution::Mult.               *)
(*                                                                         *)
(* Numbers.  The program computes with doubles.  The model computes with   *)
(* exact decimal-scaled rationals <<n, d, e>> = (n/d) * 10^e, so that the  *)
(* program constants eps = 1.E-15, abs_tol = 1.e-4 and gamma = 10. keep    *)
(* their values and every comparison against them is decided exactly.      *)
(* Rounding is not modelled: a statement "within tolerance" is checked for *)
(* the exact value of the expression the code evaluates.                   *)
(***************************************************************************)
EXTENDS Integers, Sequences, FiniteSets, TLC

VARIABLES
    pc,              \* position of the modelled run
    \* ---- mesh and DofInfo
    mesh,            \* Mesh: dimension, element grid, periodicity, order
    BdrDofs,         \* DofInfo::BdrDofs      [<<j, slot>> -> local dof]
    map_for_bounds,  \* DofInfo::map_for_bounds [dof -> Seq(element)]
    NbrDof,          \* DofInfo::NbrDof       [<<k, slot, j>> -> dof or negative]
    Sub2Ind,         \* DofInfo::Sub2Ind      [<<m, j>> -> local dof]
    xi_min, xi_max,  \* DofInfo::xi_min/xi_max, per dof
    xe_min, xe_max,  \* DofInfo::xe_min/xe_max, per element
    \* ---- matrices of the discrete upwinding
    K,               \* the advection matrix (stored entries)
    D,               \* lom.D
    smap,            \* lom.smap
    \* ---- FE_Evolution and what it refers to
    MonoType,        \* lom.MonoType, 0 .. 4
    OptScheme,       \* lom.OptScheme
    exec_mode,       \* 0 transport, 1 remap
    velocity,        \* the velocity coefficient (constant, 1-D)
    M,               \* the mass matrix (stored entries)
    lumpedM,         \* the lumped mass, per dof
    b,               \* the boundary load, per dof
    bdrInt,          \* asmbl.bdrInt   [<<k, slot, i*numDofs+j>> -> number]
    SubcellWeights,  \* asmbl.SubcellWeights [<<k, m, i>> -> number]
    dt,              \* FE_Evolution::dt
    time,            \* t = GetTime() of FE_Evolution
    start_pos,       \* FE_Evolution::start_pos [<<k, end>> -> number]
    vel_pos,         \* FE_Evolution::vel_pos, the mesh velocity v_gf
    mesh_pos,        \* FE_Evolution::mesh_pos, the nodes of the mesh
    evals,           \* the evaluations that returned: <<t, x, y>>, in order
    VolumeTerms,     \* lom.VolumeTerms, the integrator of the subcell weights
    subcell_mesh,    \* asmbl.subcell_mesh, asmbl.SubFes0, asmbl.SubFes1
    z,               \* FE_Evolution::z, the mutable scratch vector
    x,               \* the argument of Mult
    y,               \* the result of Mult
    yH, yL,          \* the locals of Mult in the FCT branch
    fct,             \* the locals of ComputeFCTSolution, per element
    calls,           \* the functions Mult has called so far, in order
    iter,            \* the loop counter of NeumannSolve
    resid,           \* the local y of NeumannSolve, whose norm is resid
    rd,              \* the locals of the residual distribution branch
    args,            \* the options of main, as parsed
    rc,              \* the value main returns
    pk               \* lom.pk

topoVars == <<mesh, BdrDofs, map_for_bounds, NbrDof, Sub2Ind>>
bndVars  == <<xi_min, xi_max, xe_min, xe_max>>
duVars   == <<K, D, smap>>
cfgVars  == <<MonoType, OptScheme, exec_mode, velocity, b, dt, time, start_pos,
              vel_pos, evals, VolumeTerms>>
asmVars  == <<M, lumpedM, bdrInt, mesh_pos>>
evoVars  == <<cfgVars, asmVars, SubcellWeights, subcell_mesh>>
vecVars  == <<z, x, y, yH, yL, fct, calls, iter, resid, rd>>
mainVars == <<args, rc, pk>>
vars     == <<pc, topoVars, bndVars, duVars, evoVars, vecVars, mainVars>>

-----------------------------------------------------------------------------
(* Exact arithmetic on decimal-scaled rationals.                            *)

Abs(i) == IF i < 0 THEN -i ELSE i

\* Op on operands that are evaluated once and handed on as values
Once1(Op(_), a) == CHOOSE r \in {Op(u) : u \in {a}} : TRUE
Once2(Op(_, _), a, bb) == CHOOSE r \in {Op(u, v) : u \in {a}, v \in {bb}} : TRUE

RECURSIVE Gcd(_, _)
Gcd(a, bb) == IF bb = 0 THEN a ELSE Gcd(bb, a % bb)

RECURSIVE Pow10(_)
Pow10(k) == IF k = 0 THEN 1 ELSE 10 * Pow10(k - 1)

\* all factors of five go to the exponent: 5 = 10 / 2 and 1/5 = 2 / 10
RECURSIVE Strip5(_, _, _)
Strip5(n, d, e) ==
    IF n % 5 = 0 THEN Strip5(n \div 5, d * 2, e + 1)
    ELSE IF d % 5 = 0 THEN Strip5(n * 2, d \div 5, e - 1)
    ELSE <<n, d, e>>

\* n/d in lowest terms, d > 0
Lowest(n, d, e) ==
    LET s == IF d < 0 THEN -1 ELSE 1
        g == Gcd(Abs(n), Abs(d))
    IN  <<(s * n) \div g, (s * d) \div g, e>>

\* the unique representation of (n/d) * 10^e: n/d in lowest terms and
\* without a factor five, 1/2 = <<1, 2, 0>>, 5 = <<1, 2, 1>>; every stage is
\* evaluated once
Norm(n, d, e) ==
    IF n = 0 THEN <<0, 1, 0>> ELSE
    CHOOSE r \in {Lowest(u[1], u[2], u[3]) :
                    u \in {Strip5(v[1], v[2], v[3]) :
                             v \in {<<w[1] \div g, w[2] \div g, e>> :
                                      w \in {IF d < 0 THEN <<-n, -d>> ELSE <<n, d>>},
                                      g \in {Gcd(Abs(n), Abs(d))}}}} : TRUE

NInt(i)    == Norm(i, 1, 0)
NSci(m, e) == Norm(m, 1, e)
Zero       == <<0, 1, 0>>
One        == <<1, 1, 0>>

NNeg(a) == <<-a[1], a[2], a[3]>>

NAdd(a, bb) ==
    IF a[1] = 0 THEN bb
    ELSE IF bb[1] = 0 THEN a
    ELSE LET e == IF a[3] < bb[3] THEN a[3] ELSE bb[3]
             g == Gcd(a[2], bb[2])
         IN  Norm(a[1] * Pow10(a[3] - e) * (bb[2] \div g)
                    + bb[1] * Pow10(bb[3] - e) * (a[2] \div g),
                  (a[2] \div g) * bb[2], e)

NSub(a, bb) == NAdd(a, NNeg(bb))

NMul(a, bb) == Norm(a[1] * bb[1], a[2] * bb[2], a[3] + bb[3])

\* bb is not zero
NDiv(a, bb) == Norm(a[1] * bb[2], a[2] * bb[1], a[3] - bb[3])

Sign(a) == IF a[1] > 0 THEN 1 ELSE IF a[1] < 0 THEN -1 ELSE 0

\* l * 10^k <= r  and  l * 10^k < r  for l, r > 0, without forming 10^k
RECURSIVE ScaleLeq(_, _, _)
ScaleLeq(l, k, r) ==
    IF k = 0 THEN l <= r ELSE IF l > r THEN FALSE ELSE ScaleLeq(l * 10, k - 1, r)

RECURSIVE ScaleLt(_, _, _)
ScaleLt(l, k, r) ==
    IF k = 0 THEN l < r ELSE IF l >= r THEN FALSE ELSE ScaleLt(l * 10, k - 1, r)

\* a <= bb for a, bb > 0
PosLeq(a, bb) ==
    LET l == a[1] * bb[2]
        r == bb[1] * a[2]
        k == a[3] - bb[3]
    IN  IF k >= 0 THEN ScaleLeq(l, k, r) ELSE ~ ScaleLt(r, -k, l)

NLeq(a, bb) ==
    IF Sign(a) # Sign(bb) THEN Sign(a) < Sign(bb)
    ELSE IF Sign(a) = 0 THEN TRUE
    ELSE IF Sign(a) > 0 THEN PosLeq(a, bb)
    ELSE PosLeq(NNeg(bb), NNeg(a))

NLt(a, bb) == ~ NLeq(bb, a)

NMax(a, bb) == IF NLeq(a, bb) THEN bb ELSE a
NMin(a, bb) == IF NLeq(a, bb) THEN a ELSE bb
NAbs(a)    == IF a[1] < 0 THEN NNeg(a) ELSE a

\* numeric_limits<double>::infinity() and its negative
PInf == <<1, 0, 0>>
MInf == <<-1, 0, 0>>
IsInf(a) == a[2] = 0

\* max and min that accept the infinities (the start values of the extrema)
XMax(a, bb) == IF a = MInf THEN bb ELSE IF bb = MInf THEN a
              ELSE IF a = PInf \/ bb = PInf THEN PInf ELSE NMax(a, bb)
XMin(a, bb) == IF a = PInf THEN bb ELSE IF bb = PInf THEN a
              ELSE IF a = MInf \/ bb = MInf THEN MInf ELSE NMin(a, bb)

\* the sum of f over the finite set S of indices
RECURSIVE NSum(_, _)
NSum(f, S) ==
    IF S = {} THEN Zero
    ELSE LET rest(i) == Once2(NAdd, f[i], NSum(f, S \ {i}))
         IN  Once1(rest, CHOOSE j \in S : TRUE)

-----------------------------------------------------------------------------
(* Program constants.                                                       *)

Eps    == NSci(1, -15)   \* double eps = 1.E-15
AbsTol == NSci(1, -4)    \* abs_tol = 1.e-4
Gamma  == NInt(10)       \* gamma = 10.

-----------------------------------------------------------------------------
(* Sparse matrices: a matrix is a function from its stored positions        *)
(* <<row, col>> to numbers; rows and columns are 0 .. n-1.                   *)

MaxN == 3     \* rows of the matrices drawn for the discrete upwinding
MaxK == 1     \* entries of K are drawn from -MaxK .. MaxK

MatSize(A) == Cardinality({q[1] : q \in DOMAIN A})

\* The stored positions in the order of the CSR arrays: by row, then column.
RECURSIVE CsrOrder(_)
CsrOrder(S) ==
    IF S = {} THEN <<>>
    ELSE LET q == CHOOSE u \in S : \A w \in S :
                      u[1] < w[1] \/ (u[1] = w[1] /\ u[2] <= w[2])
         IN  <<q>> \o CsrOrder(S \ {q})

\* SparseMatrix_Build_smap reaches _j == _end for some entry: mfem_error
SmapError(A) == \E q \in DOMAIN A : <<q[2], q[1]>> \notin DOMAIN A

\* SparseMatrix_Build_smap: the position of the symmetric entry of each entry
SparseMatrix_Build_smap(A) == [q \in DOMAIN A |-> <<q[2], q[1]>>]

\* mutant: -kij is left out of the maximum
Dij_NoKij(kij, kji) == NMax(Zero, NNeg(kji))

\* double dij = fmax(fmax(0.0,-kij),-kji);
Dij(kij, kji) == NMax(NMax(Zero, NNeg(kij)), NNeg(kji))

\* mutant: the diagonal entry is summed into rowsum as well
RECURSIVE DURow_CountDiag(_, _, _, _)
DURow_CountDiag(Km, sm, ent, st) ==
    IF ent = <<>> THEN st
    ELSE LET q == Head(ent)
             next(dij) ==
                 [Dm |-> [[st.Dm EXCEPT ![q] = NAdd(Km[q], dij)]
                             EXCEPT ![sm[q]] = NAdd(Km[sm[q]], dij)],
                  rowsum |-> NAdd(st.rowsum, dij)]
         IN  DURow_CountDiag(Km, sm, Tail(ent), next(Dij(Km[q], Km[sm[q]])))

\* The entries of one row, in order: Dp[k] and Dp[smap[k]] are written, the
\* off-diagonal dij are summed.  st = [Dm |-> D so far, rowsum |-> ...]
RECURSIVE DURow(_, _, _, _)
DURow(Km, sm, ent, st) ==
    IF ent = <<>> THEN st
    ELSE LET q   == Head(ent)
             kij == Km[q]
             kji == Km[sm[q]]
             next(dij) ==
                 [Dm |-> [[st.Dm EXCEPT ![q] = NAdd(kij, dij)]
                             EXCEPT ![sm[q]] = NAdd(kji, dij)],
                  rowsum |-> IF q[1] # q[2] THEN NAdd(st.rowsum, dij)
                             ELSE st.rowsum]
         IN  DURow(Km, sm, Tail(ent), next(Dij(kij, kji)))

\* rows i .. n-1
RECURSIVE DURows(_, _, _, _, _)
DURows(Km, sm, Dm, i, n) ==
    IF i = n THEN Dm
    ELSE LET ent == SelectSeq(CsrOrder(DOMAIN Km), LAMBDA q : q[1] = i)
             diag(st) == [st.Dm EXCEPT ![<<i, i>>] = NSub(Km[<<i, i>>], st.rowsum)]
         IN  DURows(Km, sm, diag(DURow(Km, sm, ent, [Dm |-> Dm, rowsum |-> Zero])),
                    i + 1, n)

\* ComputeDiscreteUpwindingMatrix(K, smap, D): the new D
ComputeDiscreteUpwindingMatrix(Km, sm, Dm) ==
    DURows(Km, sm, Dm, 0, MatSize(Km))

\* the sum of the stored entries of row i
RowSum(A, i) == NSum(A, {q \in DOMAIN A : q[1] = i})

-----------------------------------------------------------------------------
(* The mesh (MFEM's Mesh and FiniteElementSpace, as DofInfo queries them).   *)
(* A mesh is a record                                                       *)
(*   dim, p      dimension and order of the elements                        *)
(*   n, per      elements per axis, and which axes are periodic             *)
(*   bdrs        GetElementVertices / GetElementEdges / GetElementFaces:    *)
(*               bdrs[k][i] is the face of element k on its boundary slot i *)
(* Elements are numbered k = ix + nx*iy + nx*ny*iz.  The slots follow the   *)
(* reference element: segment 0 left, 1 right; square 0 bottom, 1 right,    *)
(* 2 top, 3 left; cube 0 bottom, 1 front, 2 right, 3 back, 4 left, 5 top.   *)

MaxNx == 3    \* elements per axis of the segment and quad meshes
MaxNz == 2    \* elements per axis of the hex meshes
MaxP  == 2    \* order of the segment and quad elements
MaxP3 == 1    \* order of the hex elements

Pw(bb, k) == IF k = 1 THEN bb ELSE IF k = 2 THEN bb * bb ELSE bb * bb * bb

NumBdrsOf(dim) == 2 * dim
NumElems(m)    == m.n[1] * m.n[2] * m.n[3]
Elems(m)       == 0 .. NumElems(m) - 1
NdOf(m)        == Pw(m.p + 1, m.dim)           \* dummy.GetDof()
NumDofsOf(m)   == IF m.dim = 1 THEN 1 ELSE Pw(m.p + 1, m.dim - 1)
Slots(m)       == 0 .. NumBdrsOf(m.dim) - 1
Dofs(m)        == 0 .. NumElems(m) * NdOf(m) - 1 \* fes->GetVSize()

\* axis (1 = x, 2 = y, 3 = z) and side (-1 low, 1 high) of a slot
SlotAxis(dim, i) ==
    IF dim = 1 THEN 1
    ELSE IF dim = 2 THEN (IF i \in {0, 2} THEN 2 ELSE 1)
    ELSE (IF i \in {0, 5} THEN 3 ELSE IF i \in {1, 3} THEN 2 ELSE 1)
SlotSide(dim, i) ==
    IF dim = 1 THEN (IF i = 0 THEN -1 ELSE 1)
    ELSE IF dim = 2 THEN (IF i \in {0, 3} THEN -1 ELSE 1)
    ELSE (IF i \in {0, 1, 4} THEN -1 ELSE 1)

Coord(n, k) == <<k % n[1], (k \div n[1]) % n[2], k \div (n[1] * n[2])>>

\* the face of element k on slot i: its axis and the grid position of the face
GridFace(dim, n, per, k, i) ==
    LET a == SlotAxis(dim, i)
        c == Coord(n, k)
        h == IF SlotSide(dim, i) = 1 THEN c[a] + 1 ELSE c[a]
        w == IF per[a] /\ h = n[a] THEN 0 ELSE h
    IN  <<a, [c EXCEPT ![a] = w]>>

\* the two elements of a face, as GetFaceElementTransformations gives them:
\* <<Elem1No, Elem2No>>, Elem2No = -1 on the boundary of the domain
GridFaceElems(dim, n, per, f) ==
    LET pair(S) == <<CHOOSE k \in S : \A l \in S : k <= l,
                     IF Cardinality(S) = 1 THEN -1
                     ELSE CHOOSE k \in S : \A l \in S : l <= k>>
    IN  pair({k \in 0 .. n[1] * n[2] * n[3] - 1 :
                 \E i \in 0 .. 2 * dim - 1 : GridFace(dim, n, per, k, i) = f})

GridMesh(dim, n, per, p) ==
    LET E == 0 .. n[1] * n[2] * n[3] - 1
        S == 0 .. 2 * dim - 1
    IN  [dim |-> dim, p |-> p, n |-> n, per |-> per,
         bdrs |-> [k \in E |-> [i \in S |-> GridFace(dim, n, per, k, i)]],
         faces |-> [f \in {GridFace(dim, n, per, k, i) : k \in E, i \in S} |->
                       GridFaceElems(dim, n, per, f)]]

\* periodic axes need two elements on a segment and three on quads
AxisChoices(dim, max) ==
    {<<c, FALSE>> : c \in 1 .. max} \cup
    {<<c, TRUE>> : c \in (IF dim = 1 THEN 2 ELSE 3) .. max}

Meshes1 == {GridMesh(1, <<a[1], 1, 1>>, <<a[2], FALSE, FALSE>>, p) :
               a \in AxisChoices(1, MaxNx), p \in 1 .. MaxP}
Meshes2 == {GridMesh(2, <<a[1][1], a[2][1], 1>>, <<a[1][2], a[2][2], FALSE>>, p) :
               a \in AxisChoices(2, MaxNx) \X AxisChoices(2, MaxNx),
               p \in 1 .. MaxP}
Meshes3 == {GridMesh(3, a, <<FALSE, FALSE, FALSE>>, p) :
               a \in (1 .. MaxNz) \X (1 .. MaxNz) \X (1 .. MaxNz),
               p \in 1 .. MaxP3}
Meshes  == Meshes1 \cup Meshes2 \cup Meshes3

\* Trans = mesh->GetFaceElementTransformations(f): Trans->Elem1No, ->Elem2No
Elem1No(m, f) == m.faces[f][1]
Elem2No(m, f) == m.faces[f][2]

\* nbr = Trans->Elem1No == k ? Trans->Elem2No : Trans->Elem1No;
NbrElemOf(m, k, i) ==
    LET f == m.bdrs[k][i]
    IN  IF Elem1No(m, f) = k THEN Elem2No(m, f) ELSE Elem1No(m, f)

\* dummy.ExtractBdrDofs(BdrDofs): the local dof at position j of slot i, in
\* the tensor-product numbering ix + (p+1)*iy + (p+1)^2*iz of the element
ExtractBdrDofs(dim, p) ==
    LET q == p + 1
    IN  IF dim = 1 THEN
            [u \in {0} \X (0 .. 1) |-> IF u[2] = 0 THEN 0 ELSE p]
        ELSE IF dim = 2 THEN
            [u \in (0 .. p) \X (0 .. 3) |->
                LET j == u[1] IN
                CASE u[2] = 0 -> j
                  [] u[2] = 1 -> j * q + p
                  [] u[2] = 2 -> q * q - 1 - j
                  [] u[2] = 3 -> (p - j) * q]
        ELSE
            [u \in (0 .. q * q - 1) \X (0 .. 5) |->
                LET j == u[1] IN
                CASE u[2] = 0 -> j
                  [] u[2] = 1 -> (j \div q) * q * q + (j % q)
                  [] u[2] = 2 -> p + j * q
                  [] u[2] = 3 -> (j \div q) * q * q + p * q + (j % q)
                  [] u[2] = 4 -> j * q
                  [] u[2] = 5 -> p * q * q + j]

-----------------------------------------------------------------------------
(* DofInfo.                                                                 *)

RECURSIVE Concat(_)
Concat(ss) == IF ss = <<>> THEN <<>> ELSE Head(ss) \o Concat(Tail(ss))

\* the neighbours of every element, by slot
NbrTable(m) == [k \in Elems(m) |-> [i \in Slots(m) |-> NbrElemOf(m, k, i)]]

\* mfem_error("Found multiple common neighbor elements.")
ErrElem == -2

\* GetCommonElem(el, el1, el2) on the neighbour lists nb of the mesh: every
\* pair (i, j) with NbrEl1[i] == NbrEl2[j] != el is a find; the second find
\* is the error.
GetCommonElem(nb, el, el1, el2) ==
    IF el1 < 0 \/ el2 < 0 THEN -1
    ELSE LET common(hits) ==
                 IF hits = {} THEN -1
                 ELSE IF Cardinality(hits) = 1
                      THEN nb[el1][(CHOOSE u \in hits : TRUE)[1]]
                      ELSE ErrElem
         IN  common({u \in (DOMAIN nb[el1]) \X (DOMAIN nb[el1]) :
                        /\ nb[el1][u[1]] >= 0
                        /\ nb[el2][u[2]] >= 0
                        /\ nb[el1][u[1]] = nb[el2][u[2]]
                        /\ nb[el1][u[1]] # el})

\* if (nbr >= 0) { map_for_bounds[k*nd+loc].push_back(nbr); }
Push(loc, nbr) == IF nbr >= 0 THEN << <<loc, nbr>> >> ELSE <<>>

\* the twelve EdgeNbrs of element k of a hex mesh
EdgeNbrsOf(nb, k) ==
    LET N == nb[k]
        C(a, bb) == GetCommonElem(nb, k, N[a], N[bb])
    IN  <<C(0, 1), C(0, 2), C(0, 3), C(0, 4), C(5, 1), C(5, 2), C(5, 3),
          C(5, 4), C(4, 1), C(1, 2), C(2, 3), C(3, 4)>>

\* the local dof an edge neighbour is pushed to in round j of the edge loop
EdgeLoc(p, e, j) ==
    LET q == p + 1 IN
    CASE e = 0  -> j
      [] e = 1  -> (j + 1) * q - 1
      [] e = 2  -> p * q + j
      [] e = 3  -> j * q
      [] e = 4  -> q * q * p + j
      [] e = 5  -> q * q * p + (j + 1) * q - 1
      [] e = 6  -> q * q * p + p * q + j
      [] e = 7  -> q * q * p + j * q
      [] e = 8  -> j * q * q
      [] e = 9  -> p + j * q * q
      [] e = 10 -> (j + 1) * q * q - 1
      [] e = 11 -> p * q + j * q * q

\* the eight vertex neighbours of element k of a hex mesh, with their dofs,
\* from its edge neighbours E
VertexNbrsOf(nb, k, p, E) ==
    LET N == nb[k]
        q == p + 1
        C(f, a, bb) == GetCommonElem(nb, N[f], E[a + 1], E[bb + 1])
    IN  << <<0, C(0, 0, 3)>>, <<p, C(0, 0, 1)>>, <<p * q, C(0, 2, 3)>>,
           <<q * q - 1, C(0, 1, 2)>>, <<q * q * p, C(5, 4, 7)>>,
           <<q * q * p + p, C(5, 4, 5)>>, <<q * q * p + q * p, C(5, 6, 7)>>,
           <<q * q * q - 1, C(5, 5, 6)>> >>

\* mutant: the corner neighbours go to the next corner
CornerNbrsOf_Shifted(nb, k, p) ==
    LET N == nb[k]
        C(a, bb) == GetCommonElem(nb, k, N[a], N[bb])
    IN  << <<0, C(0, 1)>>, <<p, C(1, 2)>>, <<(p + 1) * (p + 1) - 1, C(2, 3)>>,
           <<p * (p + 1), C(3, 0)>> >>

\* the four corner neighbours of element k of a quad mesh, with their dofs
CornerNbrsOf(nb, k, p) ==
    LET N == nb[k]
        C(a, bb) == GetCommonElem(nb, k, N[a], N[bb])
    IN  << <<0, C(3, 0)>>, <<p, C(0, 1)>>, <<(p + 1) * (p + 1) - 1, C(1, 2)>>,
           <<p * (p + 1), C(2, 3)>> >>

\* the push_back calls of GetVertexBoundsMap for element k, in order, each
\* <<local dof, element pushed>>
PushesOf(m, Bdr, nb, k) ==
    LET nd  == NdOf(m)
        p   == m.p
        N   == nb[k]
        own == [t \in 1 .. nd |-> <<t - 1, k>>]
        fac == Concat([i \in 1 .. NumBdrsOf(m.dim) |->
                  IF N[i - 1] < 0 THEN <<>>
                  ELSE [t \in 1 .. NumDofsOf(m) |->
                           <<Bdr[<<t - 1, i - 1>>], N[i - 1]>>]])
        pushes(cn) == Concat([c \in 1 .. Len(cn) |-> Push(cn[c][1], cn[c][2])])
        edges(E) == Concat([j \in 1 .. p + 1 |->
                        Concat([e \in 1 .. 12 |->
                            Push(EdgeLoc(p, e - 1, j - 1), E[e])])])
                    \o pushes(VertexNbrsOf(nb, k, p, E))
    IN  own \o fac \o (IF m.dim = 2 THEN pushes(CornerNbrsOf(nb, k, p))
                       ELSE IF m.dim = 3 THEN edges(EdgeNbrsOf(nb, k))
                       ELSE <<>>)

\* some GetCommonElem call of GetVertexBoundsMap ends in mfem_error
BoundsMapError(m) ==
    LET nb == NbrTable(m)
        bad(k, E) ==
            \/ \E e \in 1 .. 12 : E[e] = ErrElem
            \/ \E c \in 1 .. 8 : VertexNbrsOf(nb, k, m.p, E)[c][2] = ErrElem
    IN  \E k \in Elems(m) :
            \/ m.dim = 2 /\ \E c \in 1 .. 4 : CornerNbrsOf(nb, k, m.p)[c][2] = ErrElem
            \/ m.dim = 3 /\ bad(k, EdgeNbrsOf(nb, k))

\* the elements pushed to local dof loc, in the order of the pushes
RECURSIVE PushedTo(_, _)
PushedTo(ev, loc) ==
    IF ev = <<>> THEN <<>>
    ELSE (IF Head(ev)[1] = loc THEN <<Head(ev)[2]>> ELSE <<>>)
         \o PushedTo(Tail(ev), loc)

\* the lists of the dofs of element k, local dof 0 first
ElemBoundsMap(m, Bdr, nb, k) ==
    LET lists(ev) == [t \in 1 .. NdOf(m) |-> PushedTo(ev, t - 1)]
    IN  lists(PushesOf(m, Bdr, nb, k))

\* GetVertexBoundsMap: map_for_bounds
GetVertexBoundsMap(m, Bdr) ==
    LET nb == NbrTable(m)
        map(all) == [d \in Dofs(m) |-> all[d + 1]]
    IN  map(Concat([k \in 1 .. NumElems(m) |-> ElemBoundsMap(m, Bdr, nb, k - 1)]))

\* the local index ind in nbr of the common face: the first that matches
RECURSIVE FindFace(_, _, _, _)
FindFace(m, nbr, f, ind) ==
    IF ind = NumBdrsOf(m.dim) \/ m.bdrs[nbr][ind] = f THEN ind
    ELSE FindFace(m, nbr, f, ind + 1)

\* mutant: the face of a quad is walked in the same direction on both sides
NbrDofEntry_SameOrder(m, Bdr, nbr, k, i, j) ==
    IF nbr < 0 THEN -1
    ELSE nbr * NdOf(m) + Bdr[<<j, FindFace(m, nbr, m.bdrs[k][i], 0)>>]

\* mutant: slot 0 of a hex reads the layer past the last one of the neighbour
NbrDofEntry_PastLastLayer(m, Bdr, nbr, k, i, j) ==
    LET nd == NdOf(m)
        p  == m.p
        q  == m.p + 1
    IN  IF m.dim = 1 THEN nbr * nd + Bdr[<<0, (i + 1) % 2>>]
        ELSE IF m.dim = 2 THEN
            IF nbr >= 0
            THEN nbr * nd + Bdr[<<NumDofsOf(m) - 1 - j,
                                  FindFace(m, nbr, m.bdrs[k][i], 0)>>]
            ELSE -1
        ELSE CASE i = 0 -> nbr * nd + q * q * q + j
               [] i = 1 -> nbr * nd + (j \div q) * q * q + q * p + (j % q)
               [] i = 2 -> nbr * nd + j * q
               [] i = 3 -> nbr * nd + (j \div q) * q * q + (j % q)
               [] i = 4 -> nbr * nd + (j + 1) * q - 1
               [] i = 5 -> nbr * nd + j

\* the value FillNeighborDofs stores in NbrDof(k,i,j)
NbrDofEntry(m, Bdr, nbr, k, i, j) ==
    LET nd == NdOf(m)
        p  == m.p
        q  == m.p + 1
    IN  IF m.dim = 1 THEN nbr * nd + Bdr[<<0, (i + 1) % 2>>]
        ELSE IF m.dim = 2 THEN
            IF nbr >= 0
            THEN nbr * nd + Bdr[<<NumDofsOf(m) - 1 - j,
                                  FindFace(m, nbr, m.bdrs[k][i], 0)>>]
            ELSE -1
        ELSE CASE i = 0 -> nbr * nd + q * q * p + j
               [] i = 1 -> nbr * nd + (j \div q) * q * q + q * p + (j % q)
               [] i = 2 -> nbr * nd + j * q
               [] i = 3 -> nbr * nd + (j \div q) * q * q + (j % q)
               [] i = 4 -> nbr * nd + (j + 1) * q - 1
               [] i = 5 -> nbr * nd + j

\* FillNeighborDofs: NbrDof
FillNeighborDofs(m, Bdr) ==
    LET nb == NbrTable(m)
    IN  [u \in Elems(m) \X Slots(m) \X (0 .. NumDofsOf(m) - 1) |->
            NbrDofEntry(m, Bdr, nb[u[1]][u[2]], u[1], u[2], u[3])]

NumSubcellsOf(m)    == Pw(m.p, m.dim)
NumDofsSubcellOf(m) == Pw(2, m.dim)

\* mutant: aux = m, without the shift of one dof per row of subcells
Sub2IndEntry_NoRowShift(dim, p, mm, j) ==
    LET q == p + 1 IN
    IF dim = 1 THEN mm + j
    ELSE IF dim = 2 THEN
        CASE j = 0 -> mm
          [] j = 1 -> mm + 1
          [] j = 2 -> mm + p + 1
          [] j = 3 -> mm + p + 2
    ELSE
        LET aux == mm + q * (mm \div (p * p)) IN
        CASE j = 0 -> aux
          [] j = 1 -> aux + 1
          [] j = 2 -> aux + p + 1
          [] j = 3 -> aux + p + 2
          [] j = 4 -> aux + q * q
          [] j = 5 -> aux + q * q + 1
          [] j = 6 -> aux + q * q + p + 1
          [] j = 7 -> aux + q * q + p + 2

\* the value FillSubcell2CellDof stores in Sub2Ind(mm,j)
Sub2IndEntry(dim, p, mm, j) ==
    LET q == p + 1 IN
    IF dim = 1 THEN mm + j
    ELSE IF dim = 2 THEN
        LET aux == mm + (mm \div p) IN
        CASE j = 0 -> aux
          [] j = 1 -> aux + 1
          [] j = 2 -> aux + p + 1
          [] j = 3 -> aux + p + 2
    ELSE
        LET aux == mm + (mm \div p) + q * (mm \div (p * p)) IN
        CASE j = 0 -> aux
          [] j = 1 -> aux + 1
          [] j = 2 -> aux + p + 1
          [] j = 3 -> aux + p + 2
          [] j = 4 -> aux + q * q
          [] j = 5 -> aux + q * q + 1
          [] j = 6 -> aux + q * q + p + 1
          [] j = 7 -> aux + q * q + p + 2

\* FillSubcell2CellDof: Sub2Ind
FillSubcell2CellDof(m) ==
    [u \in (0 .. NumSubcellsOf(m) - 1) \X (0 .. NumDofsSubcellOf(m) - 1) |->
        Sub2IndEntry(m.dim, m.p, u[1], u[2])]

\* ComputeVertexBounds(x, dofInd): the new <<xi_min(dofInd), xi_max(dofInd)>>
RECURSIVE VertexBoundsLoop(_, _, _, _)
VertexBoundsLoop(lst, emin, emax, acc) ==
    IF lst = <<>> THEN acc
    ELSE VertexBoundsLoop(Tail(lst), emin, emax,
                          <<XMin(acc[1], emin[Head(lst)]),
                            XMax(acc[2], emax[Head(lst)])>>)

\* mutant: the loop stops one contributor early
ComputeVertexBounds_SkipLast(mfb, emin, emax, dofInd) ==
    VertexBoundsLoop(SubSeq(mfb[dofInd], 1, Len(mfb[dofInd]) - 1), emin, emax,
                     <<PInf, MInf>>)

ComputeVertexBounds(mfb, emin, emax, dofInd) ==
    VertexBoundsLoop(mfb[dofInd], emin, emax, <<PInf, MInf>>)

-----------------------------------------------------------------------------
(* Values of the variables a specification does not use.                    *)

Unused == "unused"
Unset  == "unset"     \* allocated (SetSize), not written yet

TopoUnused == /\ mesh = Unused /\ BdrDofs = Unused /\ map_for_bounds = Unused
              /\ NbrDof = Unused /\ Sub2Ind = Unused
BndUnused  == /\ xi_min = Unused /\ xi_max = Unused
              /\ xe_min = Unused /\ xe_max = Unused
DUUnused   == /\ K = Unused /\ D = Unused /\ smap = Unused
EvoUnused  == /\ MonoType = Unused /\ OptScheme = Unused /\ exec_mode = Unused
              /\ velocity = Unused /\ M = Unused /\ lumpedM = Unused
              /\ b = Unused /\ bdrInt = Unused /\ SubcellWeights = Unused
              /\ dt = Unused /\ time = Unused /\ start_pos = Unused
              /\ vel_pos = Unused /\ mesh_pos = Unused /\ evals = Unused
              /\ VolumeTerms = Unused /\ subcell_mesh = Unused
VecUnused  == /\ z = Unused /\ x = Unused /\ y = Unused /\ yH = Unused
              /\ yL = Unused /\ fct = Unused /\ calls = Unused /\ iter = Unused
              /\ resid = Unused /\ rd = Unused
              /\ args = Unused /\ rc = Unused /\ pk = Unused

-----------------------------------------------------------------------------
(* SpecTopo: the constructor of DofInfo on every mesh of Meshes.            *)

InitTopo ==
    /\ pc = "DofInfo"
    /\ mesh \in Meshes
    /\ BdrDofs = Unset /\ map_for_bounds = Unset
    /\ NbrDof = Unset /\ Sub2Ind = Unset
    /\ xi_min = Unset /\ xi_max = Unset /\ xe_min = Unset /\ xe_max = Unset
    /\ DUUnused /\ EvoUnused /\ VecUnused

\* DofInfo::DofInfo up to GetVertexBoundsMap: dummy.ExtractBdrDofs(BdrDofs)
Ctor_ExtractBdrDofs ==
    /\ pc = "DofInfo"
    /\ BdrDofs' = ExtractBdrDofs(mesh.dim, mesh.p)
    /\ pc' = "GetVertexBoundsMap"
    /\ UNCHANGED <<mesh, map_for_bounds, NbrDof, Sub2Ind, bndVars, duVars, evoVars, vecVars,
                   mainVars>>

\* GetVertexBoundsMap();  Fill map_for_bounds, or end in mfem_error
Ctor_GetVertexBoundsMap ==
    /\ pc = "GetVertexBoundsMap"
    /\ IF BoundsMapError(mesh)
       THEN pc' = "mfem_error" /\ UNCHANGED map_for_bounds
       ELSE /\ map_for_bounds' = GetVertexBoundsMap(mesh, BdrDofs)
            /\ pc' = "FillNeighborDofs"
    /\ UNCHANGED <<mesh, BdrDofs, NbrDof, Sub2Ind, bndVars, duVars, evoVars, vecVars,
                   mainVars>>

\* FillNeighborDofs();  Fill NbrDof
Ctor_FillNeighborDofs ==
    /\ pc = "FillNeighborDofs"
    /\ NbrDof' = FillNeighborDofs(mesh, BdrDofs)
    /\ pc' = "FillSubcell2CellDof"
    /\ UNCHANGED <<mesh, BdrDofs, map_for_bounds, Sub2Ind, bndVars, duVars, evoVars, vecVars,
                   mainVars>>

\* FillSubcell2CellDof();  Fill Sub2Ind
Ctor_FillSubcell2CellDof ==
    /\ pc = "FillSubcell2CellDof"
    /\ Sub2Ind' = FillSubcell2CellDof(mesh)
    /\ pc' = "built"
    /\ UNCHANGED <<mesh, BdrDofs, map_for_bounds, NbrDof, bndVars, duVars, evoVars, vecVars,
                   mainVars>>

NextTopo ==
    \/ Ctor_ExtractBdrDofs
    \/ Ctor_GetVertexBoundsMap
    \/ Ctor_FillNeighborDofs
    \/ Ctor_FillSubcell2CellDof

SpecTopo == InitTopo /\ [][NextTopo]_vars

-----------------------------------------------------------------------------
(* SpecDU: the discrete upwinding matrix of every drawn K, as main builds   *)
(* it in transport mode (lom.smap, lom.D = K, ComputeDiscreteUpwinding-     *)
(* Matrix).                                                                 *)

\* the sparsity patterns of an n x n matrix that store the diagonal
Patterns(n) ==
    LET diag == {<<i, i>> : i \in 0 .. n - 1}
        off  == {u \in (0 .. n - 1) \X (0 .. n - 1) : u[1] # u[2]}
    IN  {diag \cup S : S \in SUBSET off}

KValues == {NInt(v) : v \in (-MaxK) .. MaxK}

Matrices == UNION {UNION {[P -> KValues] : P \in Patterns(n)} : n \in 1 .. MaxN}

InitDU ==
    /\ pc = "smap"
    /\ K \in Matrices
    /\ D = Unset /\ smap = Unset
    /\ TopoUnused /\ BndUnused /\ EvoUnused /\ VecUnused

\* lom.smap = SparseMatrix_Build_smap(k.SpMat());  lom.D = k.SpMat();
Main_BuildSmap ==
    /\ pc = "smap"
    /\ IF SmapError(K)
       THEN pc' = "mfem_error" /\ UNCHANGED <<smap, D>>
       ELSE /\ smap' = SparseMatrix_Build_smap(K)
            /\ D' = K
            /\ pc' = "upwind"
    /\ UNCHANGED <<K, topoVars, bndVars, evoVars, vecVars,
                   mainVars>>

\* ComputeDiscreteUpwindingMatrix(k.SpMat(), lom.smap, lom.D);
Main_DiscreteUpwinding ==
    /\ pc = "upwind"
    /\ D' = ComputeDiscreteUpwindingMatrix(K, smap, D)
    /\ pc' = "upwinded"
    /\ UNCHANGED <<K, smap, topoVars, bndVars, evoVars, vecVars,
                   mainVars>>

NextDU == Main_BuildSmap \/ Main_DiscreteUpwinding

SpecDU == InitDU /\ [][NextDU]_vars

-----------------------------------------------------------------------------
(* SpecBounds: ComputeVertexBounds, called for dofInd = 0, 1, ... as the    *)
(* loop of ComputeFCTSolution calls it, on a DofInfo built on a small mesh; *)
(* xe_min and xe_max hold drawn values.                                     *)

MaxBndElems == 4    \* elements of the meshes of SpecBounds
MaxX == 1           \* drawn values are 0 .. MaxX times Unit

\* the drawn values are multiples of 2 eps
Unit == NMul(NInt(2), Eps)

XVals == {NMul(NInt(v), Unit) : v \in 0 .. MaxX}

InitBounds ==
    /\ mesh \in {m \in Meshes : NumElems(m) <= MaxBndElems}
    /\ pc = [at |-> "ComputeVertexBounds", dofInd |-> 0]
    /\ BdrDofs = ExtractBdrDofs(mesh.dim, mesh.p)
    /\ map_for_bounds = GetVertexBoundsMap(mesh, BdrDofs)
    /\ NbrDof = FillNeighborDofs(mesh, BdrDofs)
    /\ Sub2Ind = FillSubcell2CellDof(mesh)
    /\ xe_min \in [Elems(mesh) -> XVals]
    /\ xe_max \in [Elems(mesh) -> XVals]
    /\ xi_min = [d \in Dofs(mesh) |-> Unset]
    /\ xi_max = [d \in Dofs(mesh) |-> Unset]
    /\ DUUnused /\ EvoUnused /\ VecUnused

\* dofs.ComputeVertexBounds(x, dofInd);
Call_ComputeVertexBounds ==
    /\ pc.dofInd \in Dofs(mesh)
    /\ \E r \in {ComputeVertexBounds(map_for_bounds, xe_min, xe_max, pc.dofInd)} :
           /\ xi_min' = [xi_min EXCEPT ![pc.dofInd] = r[1]]
           /\ xi_max' = [xi_max EXCEPT ![pc.dofInd] = r[2]]
    /\ pc' = [pc EXCEPT !.dofInd = @ + 1]
    /\ UNCHANGED <<topoVars, xe_min, xe_max, duVars, evoVars, vecVars,
                   mainVars>>

NextBounds == Call_ComputeVertexBounds

SpecBounds == InitBounds /\ [][NextBounds]_vars

-----------------------------------------------------------------------------
(* Claims about DofInfo.                                                    *)

Range(sq) == {sq[t] : t \in DOMAIN sq}

\* the least and the greatest number of a non-empty finite set of numbers
LeastOf(S)    == CHOOSE a \in S : \A bb \in S : NLeq(a, bb)
GreatestOf(S) == CHOOSE a \in S : \A bb \in S : NLeq(bb, a)

\* C7: after ComputeVertexBounds(x, d), xi_min(d) is the minimum of xe_min and
\* xi_max(d) the maximum of xe_max over exactly the elements of
\* map_for_bounds[d], and xi_min(d) <= xi_max(d) when xe_min(e) <= xe_max(e)
\* for those elements.
C7_VertexBounds ==
    \A d \in Dofs(mesh) : d < pc.dofInd =>
        LET E == Range(map_for_bounds[d]) IN
        /\ xi_min[d] = LeastOf({xe_min[e] : e \in E})
        /\ xi_max[d] = GreatestOf({xe_max[e] : e \in E})
        /\ (\A e \in E : NLeq(xe_min[e], xe_max[e])) => NLeq(xi_min[d], xi_max[d])

\* a dof with several contributors of different, well ordered bounds is done
C7_Witness ==
    \E d \in Dofs(mesh) :
        /\ d < pc.dofInd
        /\ Cardinality(Range(map_for_bounds[d])) >= 3
        /\ \A e \in Range(map_for_bounds[d]) : NLeq(xe_min[e], xe_max[e])
        /\ \E e, g \in Range(map_for_bounds[d]) :
               xe_min[e] # xe_min[g] /\ xe_max[e] # xe_max[g]
        /\ xi_min[d] # xe_min[d \div NdOf(mesh)]

NbrDofFilled == pc \in {"FillSubcell2CellDof", "built"}
BoundsMapFilled == pc \in {"FillNeighborDofs", "FillSubcell2CellDof", "built"}

\* C8: for every element k, boundary slot i with no neighbouring element and
\* every local boundary dof j, in 1-D, 2-D and 3-D, NbrDof(k,i,j) = -1.
C8_ExteriorIsMinusOne ==
    NbrDofFilled =>
        \A k \in Elems(mesh), i \in Slots(mesh), j \in 0 .. NumDofsOf(mesh) - 1 :
            NbrElemOf(mesh, k, i) < 0 => NbrDof[<<k, i, j>>] = -1

\* The round trip of C9 from position j of slot i of element k, when the way
\* back starts at position jb of the shared face in the neighbour.
RoundTrip(k, i, j, jb) ==
    LET n  == NbrElemOf(mesh, k, i)
        nd == NdOf(mesh)
        ib == FindFace(mesh, n, mesh.bdrs[k][i], 0)
    IN  /\ NbrDof[<<k, i, j>>] = n * nd + BdrDofs[<<jb, ib>>]
        /\ NbrDof[<<n, ib, jb>>] = k * nd + BdrDofs[<<j, i>>]

InteriorPositions ==
    {u \in Elems(mesh) \X Slots(mesh) \X (0 .. NumDofsOf(mesh) - 1) :
        NbrElemOf(mesh, u[1], u[2]) >= 0}

\* C9 as stated: on every interior face, in every dimension, NbrDof of the
\* neighbour at the reversed boundary position maps back to the dof.
C9_ReversedEverywhere ==
    NbrDofFilled =>
        \A u \in InteriorPositions :
            RoundTrip(u[1], u[2], u[3], NumDofsOf(mesh) - 1 - u[3])

\* C9 amended: the neighbour dof is the dof of the neighbour on the shared face
\* at the reversed position on segments and quads and at the same position on
\* hexes, and NbrDof maps it back to the dof: NbrDof twice is the identity.
C9_RoundTrip ==
    NbrDofFilled =>
        \A u \in InteriorPositions :
            RoundTrip(u[1], u[2], u[3],
                      IF mesh.dim = 3 THEN u[3] ELSE NumDofsOf(mesh) - 1 - u[3])

\* NbrDof is filled for a hex mesh with an interior face, where the way back
\* starts at the same position, which is not the reversed one
C9_Witness ==
    /\ NbrDofFilled
    /\ mesh.dim = 3
    /\ \E u \in InteriorPositions :
           /\ RoundTrip(u[1], u[2], u[3], u[3])
           /\ ~RoundTrip(u[1], u[2], u[3], NumDofsOf(mesh) - 1 - u[3])

\* the element at grid position c, -1 outside of the grid
GridElemAt(m, c) ==
    LET w == [a \in 1 .. 3 |->
                 IF m.per[a] THEN (c[a] + m.n[a]) % m.n[a] ELSE c[a]]
    IN  IF \E a \in 1 .. 3 : w[a] < 0 \/ w[a] >= m.n[a] THEN -1
        ELSE w[1] + m.n[1] * w[2] + m.n[1] * m.n[2] * w[3]

\* the sides of its element the dof lies on along axis a: the steps to the
\* elements that contain the point of the dof
StepsOf(m, d, a) ==
    LET loc == d % NdOf(m)
        ax  == IF a = 1 THEN loc % (m.p + 1) ELSE loc \div (m.p + 1)
    IN  IF a > m.dim THEN {0}
        ELSE {0} \cup (IF ax = 0 THEN {-1} ELSE {}) \cup (IF ax = m.p THEN {1} ELSE {})

\* the owner, the face neighbours across the slots the dof lies on, and for a
\* corner of a quad the element diagonally across, when both face neighbours
\* exist
ExpectedContributors(m, d) ==
    LET c == Coord(m.n, d \div NdOf(m))
        at(sx, sy) == GridElemAt(m, <<c[1] + sx, c[2] + sy, c[3]>>)
    IN  {at(sx, sy) : sx \in StepsOf(m, d, 1), sy \in StepsOf(m, d, 2)}
        \ ({-1} \cup {at(u[1], u[2]) : u \in {w \in {-1, 1} \X {-1, 1} :
                            at(w[1], 0) = -1 \/ at(0, w[2]) = -1}})

\* C10: on a structured mesh of segments or quads the contributors of a dof
\* are, as a set, its element, the face neighbours across the interior slots
\* on which it lies and, for a corner of a quad, the element diagonally across.
C10_Contributors ==
    (BoundsMapFilled /\ mesh.dim \in {1, 2}) =>
        \A d \in Dofs(mesh) :
            Range(map_for_bounds[d]) = ExpectedContributors(mesh, d)

\* a quad mesh of order 2 with an interior vertex: the corner dof there has
\* four contributors, the dofs inside the edges two, the interior dof one
C10_Witness ==
    /\ BoundsMapFilled /\ mesh.dim = 2 /\ mesh.p = 2
    /\ \E d \in Dofs(mesh) : Cardinality(Range(map_for_bounds[d])) = 4
    /\ \E d \in Dofs(mesh) : Cardinality(Range(map_for_bounds[d])) = 2
    /\ \E d \in Dofs(mesh) : Cardinality(Range(map_for_bounds[d])) = 1

-----------------------------------------------------------------------------
(* Claims about the discrete upwinding matrix.                              *)

OffDiagonal(A) == {q \in DOMAIN A : q[1] # q[2]}

\* C4: for every K of structurally symmetric sparsity, every off-diagonal
\* stored entry of the D of ComputeDiscreteUpwindingMatrix is >= 0.
C4_OffDiagonalNonNegative ==
    pc = "upwinded" => \A q \in OffDiagonal(D) : NLeq(Zero, D[q])

\* a negative off-diagonal entry of K was lifted to zero, its symmetric entry
\* was lifted above its value in K
C4_Witness ==
    /\ pc = "upwinded"
    /\ \E q \in OffDiagonal(D) :
           /\ NLt(K[q], Zero) /\ D[q] = Zero
           /\ NLt(K[smap[q]], D[smap[q]])

\* C5 as stated: each row of every constructed D sums to zero.
C5_ZeroRowSums ==
    pc = "upwinded" => \A i \in 0 .. MatSize(D) - 1 : RowSum(D, i) = Zero

\* C5 amended: each row of D sums to what the same row of K sums to, so a
\* constant input gives D x = K x in every row, which is zero in the rows of
\* K that sum to zero.
C5_RowSumsOfK ==
    pc = "upwinded" =>
        \A i \in 0 .. MatSize(D) - 1 : RowSum(D, i) = RowSum(K, i)

\* a row of K that does not sum to zero got a positive dij
C5_Witness ==
    /\ pc = "upwinded"
    /\ \E q \in OffDiagonal(D) :
           /\ NLt(K[q], D[q])
           /\ RowSum(K, q[1]) # Zero
           /\ NLt(K[<<q[1], q[1]>>], Zero)

-----------------------------------------------------------------------------
(* Vectors are functions on 0 .. n-1.                                       *)

RECURSIVE SeqOfFcn(_, _, _)
SeqOfFcn(f, i, n) == IF i = n THEN <<>> ELSE <<f[i]>> \o SeqOfFcn(f, i + 1, n)

\* the vector f on 0 .. n-1 with every entry computed
Vector(f, n) == LET sq == SeqOfFcn(f, 0, n) IN [i \in 0 .. n - 1 |-> sq[i + 1]]

\* SparseMatrix::Mult, row i
SpMult(A, xv, i) ==
    NSum([q \in {u \in DOMAIN A : u[1] = i} |-> NMul(A[q], xv[q[2]])],
         {u \in DOMAIN A : u[1] = i})

\* Vector::Norml2() <= tol, compared by the squares
Norml2Leq(v, tol) ==
    Once2(NLeq, NSum([i \in DOMAIN v |-> NMul(v[i], v[i])], DOMAIN v),
          NMul(tol, tol))

-----------------------------------------------------------------------------
(* What MFEM assembles in main on a mesh of segments of length 1 with the   *)
(* positive basis of order 1 and a constant velocity, exec_mode 0.          *)

None        == 0
DiscUpw     == 1
DiscUpw_FCT == 2
ResDist     == 3
ResDist_FCT == 4

IsDU(mt) == mt \in {DiscUpw, DiscUpw_FCT}

\* const bool NeedBdr = lom.OptScheme || (MonoType != DiscUpw && != DiscUpw_FCT)
NeedBdr(mt, opt) == opt \/ ~ IsDU(mt)

\* const bool NeedSubcells = lom.OptScheme && (ResDist || ResDist_FCT)
NeedSubcells(mt, opt) == opt /\ mt \in {ResDist, ResDist_FCT}

ElemBlocks(m) ==
    {q \in Dofs(m) \X Dofs(m) : q[1] \div NdOf(m) = q[2] \div NdOf(m)}

\* the dof of element k on slot i of a segment
SlotDof(m, k, i) == k * NdOf(m) + (IF i = 0 THEN 0 ELSE m.p)

\* m.AddDomainIntegrator(new MassIntegrator): 1/3 and 1/6 on each element
MassMatrix(m) ==
    [q \in ElemBlocks(m) |->
        IF q[1] = q[2] THEN NDiv(One, NInt(3)) ELSE NDiv(One, NInt(6))]

\* ml: LumpedIntegrator(new MassIntegrator), GetDiag(lumpedM)
LumpedMass(m) == [d \in Dofs(m) |-> NDiv(One, NInt(2))]

\* ConvectionIntegrator(velocity, -1.0): -v * int phi_i phi_j'
ConvectionEntry(m, v, q) ==
    IF q[2] % NdOf(m) = 0 THEN NDiv(v, NInt(2)) ELSE NDiv(NNeg(v), NInt(2))

\* the dofs <<d1, d2>> of the two elements of face f, d2 = -1 on the boundary,
\* and u.n with the normal out of Elem1
FaceDofs(m, f) ==
    LET e1 == Elem1No(m, f)
        e2 == Elem2No(m, f)
    IN  <<SlotDof(m, e1, FindFace(m, e1, f, 0)),
          IF e2 < 0 THEN -1 ELSE SlotDof(m, e2, FindFace(m, e2, f, 0))>>
FaceUn(m, v, f) ==
    NMul(v, NInt(SlotSide(1, FindFace(m, Elem1No(m, f), f, 0))))

\* TransposeIntegrator(new DGTraceIntegrator(velocity, 1.0, -0.5)) on the
\* interior and the boundary faces: the part of face f in entry q
FaceEntry(m, v, f, q) ==
    LET dd == FaceDofs(m, f)
        un == FaceUn(m, v, f)
        w1 == NMin(Zero, un)
        w2 == NNeg(NMax(Zero, un))
    IN  IF dd[2] < 0 THEN (IF q = <<dd[1], dd[1]>> THEN w1 ELSE Zero)
        ELSE NAdd(NAdd(IF q = <<dd[1], dd[1]>> THEN w1 ELSE Zero,
                       IF q = <<dd[1], dd[2]>> THEN NNeg(w1) ELSE Zero),
                  NAdd(IF q = <<dd[2], dd[2]>> THEN w2 ELSE Zero,
                       IF q = <<dd[2], dd[1]>> THEN NNeg(w2) ELSE Zero))

FaceBlocks(m) ==
    UNION {LET dd == FaceDofs(m, f)
           IN  IF dd[2] < 0 THEN {}
               ELSE {<<dd[1], dd[1]>>, <<dd[1], dd[2]>>,
                     <<dd[2], dd[1]>>, <<dd[2], dd[2]>>} : f \in DOMAIN m.faces}

\* k.Assemble(skip_zeros), k.SpMat(): the face integrators are added for the
\* basic discrete upwinding only
AdvectionMatrix(m, v, mt, opt) ==
    IF IsDU(mt) /\ ~ opt
    THEN [q \in ElemBlocks(m) \cup FaceBlocks(m) |->
             NAdd(IF q \in ElemBlocks(m) THEN ConvectionEntry(m, v, q) ELSE Zero,
                  NSum([f \in DOMAIN m.faces |-> FaceEntry(m, v, f, q)],
                       DOMAIN m.faces))]
    ELSE [q \in ElemBlocks(m) |-> ConvectionEntry(m, v, q)]

\* b: BoundaryFlowIntegrator(inflow, v_coef, -1.0, -0.5): |u.n| * inflow at the
\* dofs of the inflow boundary
BoundaryLoad(m, v, inflow) ==
    [d \in Dofs(m) |->
        NSum([f \in DOMAIN m.faces |->
                 IF FaceDofs(m, f) = <<d, -1>>
                 THEN NMul(NNeg(NMin(Zero, FaceUn(m, v, f))), inflow)
                 ELSE Zero],
             DOMAIN m.faces)]

-----------------------------------------------------------------------------
(* Assembly and FE_Evolution.                                               *)

\* Assembly::ComputeFluxTerms(k, BdrID, Trans, lom) on a segment: one point
\* of weight 1, shape 1 at the dof of the slot, nor the outward normal.
\* The new bdrInt(k, BdrID, .), added to the old one.
ComputeFluxTerms(m, emode, v, old, k, BdrID) ==
    LET nor == NInt(SlotSide(1, BdrID))
        vn  == IF emode = 0 THEN NMin(Zero, NMul(v, nor))
               ELSE NNeg(NMax(Zero, NMul(v, nor)))
        aux == vn           \* ip.weight * Trans->Face->Weight() * shape * vn
    IN  [e \in 0 .. NumDofsOf(m) * NumDofsOf(m) - 1 |-> NSub(old[e], aux)]

\* The loops of the constructor of Assembly over k and i: bdrInt
AssembleBdrInt(m, emode, v) ==
    LET zero == [e \in 0 .. NumDofsOf(m) * NumDofsOf(m) - 1 |-> Zero]
    IN  [u \in Elems(m) \X Slots(m) \X (0 .. NumDofsOf(m) * NumDofsOf(m) - 1) |->
            ComputeFluxTerms(m, emode, v, zero, u[1], u[2])[u[3]]]

\* mutant: outside of the domain the neighbour value is the value of the dof
XDiff_Mirror(k, BdrID, xv, j) ==
    LET idx == NbrDof[<<k, BdrID, j>>]
    IN  IF idx < 0 THEN Zero
        ELSE NSub(xv[idx], xv[k * NdOf(mesh) + BdrDofs[<<j, BdrID>>]])

\* xDiff(j) of LinearFluxLumping: xNeighbor = idx < 0 ? 0. : x(idx)
XDiff(k, BdrID, xv, j) ==
    LET idx == NbrDof[<<k, BdrID, j>>]
    IN  NSub(IF idx < 0 THEN Zero ELSE xv[idx],
             xv[k * NdOf(mesh) + BdrDofs[<<j, BdrID>>]])

\* mutant: alpha of the dof i is used twice
LinearFluxLumping_AlphaOfI(k, BdrID, xv, alpha, i) ==
    LET J == 0 .. NumDofsOf(mesh) - 1
    IN  NSum([j \in J |->
                NMul(bdrInt[<<k, BdrID, i * NumDofsOf(mesh) + j>>],
                     NAdd(XDiff(k, BdrID, xv, i),
                          NMul(NMul(NSub(XDiff(k, BdrID, xv, j),
                                         XDiff(k, BdrID, xv, i)),
                                    alpha[BdrDofs[<<i, BdrID>>]]),
                               alpha[BdrDofs[<<i, BdrID>>]])))], J)

\* LinearFluxLumping(k, nd, BdrID, x, y, alpha): what it adds to
\* y(k*nd + BdrDofs(i, BdrID)), for the position i of the slot
LinearFluxLumping(k, BdrID, xv, alpha, i) ==
    LET J == 0 .. NumDofsOf(mesh) - 1
    IN  NSum([j \in J |->
                NMul(bdrInt[<<k, BdrID, i * NumDofsOf(mesh) + j>>],
                     NAdd(XDiff(k, BdrID, xv, i),
                          NMul(NMul(NSub(XDiff(k, BdrID, xv, j),
                                         XDiff(k, BdrID, xv, i)),
                                    alpha[BdrDofs[<<i, BdrID>>]]),
                               alpha[BdrDofs[<<j, BdrID>>]])))], J)

\* for (i = 0; i < dofs.numBdrs; i++) LinearFluxLumping(k, nd, i, x, y, alpha):
\* what the loop adds to y(d)
LumpedFluxes(xv, alpha, d) ==
    LET k   == d \div NdOf(mesh)
        loc == d % NdOf(mesh)
        P   == {u \in Slots(mesh) \X (0 .. NumDofsOf(mesh) - 1) :
                   BdrDofs[<<u[2], u[1]>>] = loc}
    IN  NSum([u \in P |-> LinearFluxLumping(k, u[1], xv, alpha, u[2])], P)

ElemDofs(k) == {k * NdOf(mesh) + j : j \in 0 .. NdOf(mesh) - 1}

\* mutant: the minimum is taken over the dofs after the first
ElemMin_AfterFirst(xv, k) ==
    CHOOSE a \in {xv[d] : d \in ElemDofs(k) \ {k * NdOf(mesh)}} :
        \A d \in ElemDofs(k) \ {k * NdOf(mesh)} : NLeq(a, xv[d])

\* dofs.xe_min(k), dofs.xe_max(k) as the low order solution sets them
ElemMin(xv, k) == CHOOSE a \in {xv[d] : d \in ElemDofs(k)} :
                      \A d \in ElemDofs(k) : NLeq(a, xv[d])
ElemMax(xv, k) == CHOOSE a \in {xv[d] : d \in ElemDofs(k)} :
                      \A d \in ElemDofs(k) : NLeq(xv[d], a)

AlphaOf(a) == [j \in 0 .. NdOf(mesh) - 1 |-> a]

\* ComputeLowOrderSolution, discrete upwinding branch: y
LowOrderDU(xv, Dm) ==
    [d \in Dofs(mesh) |->
        NDiv(NAdd(NAdd(SpMult(Dm, xv, d), b[d]),
                  IF OptScheme THEN LumpedFluxes(xv, AlphaOf(Zero), d) ELSE Zero),
             lumpedM[d])]

\* Assembly::ComputeSubcellWeights(k, m): SubcellWeights(k, m, .), the row
\* elmat(0, .) that VolumeTerms->AssembleElementMatrix2 gives for the subcell
\* k*numSubcells + m of the subcell mesh as it is at the time tt.  The
\* integrator is not part of the repository: vt.w is its row on the mesh at
\* the start, vt.slope how the row grows as the nodes move.
ComputeSubcellWeights(vt, tt, k, mm) ==
    [j \in 0 .. NumDofsSubcellOf(mesh) - 1 |->
        NMul(vt.w[j + 1], NAdd(One, NMul(vt.slope, tt)))]

\* for (k ...) for (m ...) ComputeSubcellWeights(k, m): the whole tensor
AssembleSubcellWeights(vt, tt) ==
    [u \in Elems(mesh) \X (0 .. NumSubcellsOf(mesh) - 1)
           \X (0 .. NumDofsSubcellOf(mesh) - 1) |->
        ComputeSubcellWeights(vt, tt, u[1], u[2])[u[3]]]

\* mutant: the weights are recomputed in the first evaluation only, later
\* evaluations read what the evaluation before has left
SubcellWeightsRead_FirstOnly(sw, vt, tt, emode) ==
    IF emode = 1 /\ subcell_mesh = Unset THEN AssembleSubcellWeights(vt, tt) ELSE sw

\* asmbl.SubcellWeights as the subcell loop reads it: in remap mode
\* ComputeSubcellWeights(k, m) has just run for the subcell that is read
SubcellWeightsRead(sw, vt, tt, emode) ==
    IF emode = 1 THEN AssembleSubcellWeights(vt, tt) ELSE sw

\* The locals of the residual distribution branch for element k; zz is K x,
\* sw is asmbl.SubcellWeights as it is read.
RDElem(xv, zz, sw, k) ==
    LET nd    == NdOf(mesh)
        E     == ElemDofs(k)
        xmax  == ElemMax(xv, k)
        xmin  == ElemMin(xv, k)
        xSum  == NSum(xv, E)
        rhoP  == IF OptScheme
                 THEN NSum([d \in E |-> NMax(Zero, zz[d])], E) ELSE Zero
        rhoN  == IF OptScheme
                 THEN NSum([d \in E |-> NMin(Zero, zz[d])], E) ELSE Zero
        nds   == NumDofsSubcellOf(mesh)
        Sub   == 0 .. NumSubcellsOf(mesh) - 1
        I     == 0 .. nds - 1
        sdof(mm, i) == k * nd + Sub2Ind[<<mm, i>>]
        sx(mm) == {xv[sdof(mm, i)] : i \in I}
        xMaxSubcell(mm) == CHOOSE a \in sx(mm) : \A c \in sx(mm) : NLeq(c, a)
        xMinSubcell(mm) == CHOOSE a \in sx(mm) : \A c \in sx(mm) : NLeq(a, c)
        subSum(mm) == NSum([i \in I |-> xv[sdof(mm, i)]], I)
        fluct(mm) ==
            NSum([i \in I |-> NMul(sw[<<k, mm, i>>], xv[sdof(mm, i)])], I)
        sumWeightsSubcellP(mm) ==
            NAdd(NSub(NMul(NInt(nds), xMaxSubcell(mm)), subSum(mm)), Eps)
        sumWeightsSubcellN(mm) ==
            NSub(NSub(NMul(NInt(nds), xMinSubcell(mm)), subSum(mm)), Eps)
        fluctSubcellP(mm) == NMax(Zero, fluct(mm))
        fluctSubcellN(mm) == NMin(Zero, fluct(mm))
        T == Sub \X I
    IN  [xe_max |-> xmax, xe_min |-> xmin, rhoP |-> rhoP, rhoN |-> rhoN,
         sumWeightsP |-> NAdd(NSub(NMul(NInt(nd), xmax), xSum), Eps),
         sumWeightsN |-> NSub(NSub(NMul(NInt(nd), xmin), xSum), Eps),
         sumFluctSubcellP |->
             IF OptScheme THEN NSum([mm \in Sub |-> fluctSubcellP(mm)], Sub)
             ELSE Zero,
         sumFluctSubcellN |->
             IF OptScheme THEN NSum([mm \in Sub |-> fluctSubcellN(mm)], Sub)
             ELSE Zero,
         nodalWeightsP |->
             IF ~ OptScheme THEN AlphaOf(Zero)
             ELSE [loc \in 0 .. nd - 1 |->
                    NSum([u \in T |->
                            IF Sub2Ind[u] # loc THEN Zero
                            ELSE NMul(fluctSubcellP(u[1]),
                                      NDiv(NSub(xMaxSubcell(u[1]), xv[k * nd + loc]),
                                           sumWeightsSubcellP(u[1])))], T)],
         nodalWeightsN |->
             IF ~ OptScheme THEN AlphaOf(Zero)
             ELSE [loc \in 0 .. nd - 1 |->
                    NSum([u \in T |->
                            IF Sub2Ind[u] # loc THEN Zero
                            ELSE NMul(fluctSubcellN(u[1]),
                                      NDiv(NSub(xMinSubcell(u[1]), xv[k * nd + loc]),
                                           sumWeightsSubcellN(u[1])))], T)]]

\* weightP and weightN of the dof i of the element with the locals r
RDWeights(xv, r, d) ==
    LET i   == d % NdOf(mesh)
        wP0 == NDiv(NSub(r.xe_max, xv[d]), r.sumWeightsP)
        wN0 == NDiv(NSub(r.xe_min, xv[d]), r.sumWeightsN)
        auxP == NDiv(Gamma, NAdd(r.rhoP, Eps))
        auxN == NDiv(Gamma, NSub(r.rhoN, Eps))
    IN  IF ~ OptScheme THEN <<wP0, wN0>>
        ELSE <<NAdd(NMul(wP0, NSub(One, NMin(NMul(auxP, r.sumFluctSubcellP), One))),
                    NMul(NMin(auxP, NDiv(One, NAdd(r.sumFluctSubcellP, Eps))),
                         r.nodalWeightsP[i])),
               NAdd(NMul(wN0, NSub(One, NMin(NMul(auxN, r.sumFluctSubcellN), One))),
                    NMul(NMax(auxN, NDiv(One, NSub(r.sumFluctSubcellN, Eps))),
                         r.nodalWeightsN[i]))>>

\* ComputeLowOrderSolution, residual distribution branch: y, with zz = K x
LowOrderRD(xv, zz, sw) ==
    [d \in Dofs(mesh) |->
        LET k == d \div NdOf(mesh)
            E == ElemDofs(k)
            rate(w) ==
                NDiv(NAdd(NAdd(b[d], LumpedFluxes(xv, AlphaOf(Zero), d)),
                          NSum([j \in E |->
                                  IF NLt(Eps, zz[j]) THEN NMul(w[1], zz[j])
                                  ELSE IF NLt(zz[j], NNeg(Eps)) THEN NMul(w[2], zz[j])
                                  ELSE Zero], E)),
                     lumpedM[d])
        IN  rate(RDWeights(xv, RDElem(xv, zz, sw, k), d))]

\* mutant: the subcell mesh and the weights are rebuilt in both modes
RebuildsSubcells_EveryMode(mt, emode, opt) == ~ IsDU(mt) /\ opt

\* if ((exec_mode == 1) && (lom.OptScheme)) in the residual distribution
\* branch, if (exec_mode == 1) asmbl.ComputeSubcellWeights(k, m) in its loop
RebuildsSubcells(mt, emode, opt) == ~ IsDU(mt) /\ emode = 1 /\ opt

\* ComputeLowOrderSolution(x, y): the new y, z, D, element bounds and, in
\* remap mode with subcells, the rebuilt subcell mesh and the new weights
ComputeLowOrderSolution(xv) ==
    LET n == Cardinality(Dofs(mesh))
        out(Dn, zz) ==
            [y |-> IF IsDU(MonoType) THEN Vector(LowOrderDU(xv, Dn), n)
                   ELSE Vector(LowOrderRD(xv, zz,
                                   SubcellWeightsRead(SubcellWeights, VolumeTerms,
                                                      time, exec_mode)), n),
             z |-> zz, D |-> Dn,
             xe_min |-> [k \in Elems(mesh) |-> ElemMin(xv, k)],
             xe_max |-> [k \in Elems(mesh) |-> ElemMax(xv, k)],
             subcell_mesh |->
                 IF RebuildsSubcells(MonoType, exec_mode, OptScheme)
                 THEN "GetSubcellMesh" ELSE subcell_mesh,
             SubcellWeights |->
                 IF RebuildsSubcells(MonoType, exec_mode, OptScheme)
                 THEN AssembleSubcellWeights(VolumeTerms, time)
                 ELSE SubcellWeights]
    IN  out(IF IsDU(MonoType) /\ exec_mode = 1 /\ ~ OptScheme
            THEN ComputeDiscreteUpwindingMatrix(K, smap, D) ELSE D,
            IF IsDU(MonoType) THEN z
            ELSE Vector([d \in Dofs(mesh) |-> SpMult(K, xv, d)], n))

max_iter == 20

\* M.Mult(x, y); y -= f
NeumannResidual(f, xv) ==
    Vector([i \in DOMAIN f |-> Once2(NSub, SpMult(M, xv, i), f[i])],
           Cardinality(DOMAIN f))

\* mutant: the residual is subtracted without the lumped mass
NeumannUpdate_Unscaled(xv, yv) ==
    Vector([i \in DOMAIN xv |-> NSub(xv[i], yv[i])], Cardinality(DOMAIN xv))

\* x(i) -= y(i) / lumpedM(i)
NeumannUpdate(xv, yv) ==
    Vector([i \in DOMAIN xv |-> Once2(NSub, xv[i], NDiv(yv[i], lumpedM[i]))],
           Cardinality(DOMAIN xv))

\* mutant: the loop runs one iteration more
NeumannContinues_OneMore(it) == it <= max_iter + 1

\* iter <= max_iter
NeumannContinues(it) == it <= max_iter

\* the loop of NeumannSolve from iteration it on, with the iterate xv
RECURSIVE NeumannLoop(_, _, _)
NeumannLoop(f, xv, it) ==
    IF ~ NeumannContinues(it) THEN xv
    ELSE LET step(yv) ==
                 IF Norml2Leq(yv, AbsTol) THEN xv
                 ELSE NeumannLoop(f, NeumannUpdate(xv, yv), it + 1)
         IN  step(NeumannResidual(f, xv))

\* NeumannSolve(f, x): x
NeumannSolve(f) == NeumannLoop(f, [i \in DOMAIN f |-> Zero], 1)

\* mutant: the flux terms are never incorporated
ComputeHighOrderSolution_NoLumping(xv) ==
    LET n == Cardinality(Dofs(mesh))
        out(zz) == [y |-> NeumannSolve(zz), z |-> zz]
    IN  out(Vector([d \in Dofs(mesh) |-> NAdd(SpMult(K, xv, d), b[d])], n))

\* ComputeHighOrderSolution(x, y): the new y and z
ComputeHighOrderSolution(xv) ==
    LET n == Cardinality(Dofs(mesh))
        out(zz) == [y |-> NeumannSolve(zz), z |-> zz]
    IN  out(Vector([d \in Dofs(mesh) |->
                       NAdd(NAdd(SpMult(K, xv, d), b[d]),
                            IF MonoType # DiscUpw_FCT \/ OptScheme
                            THEN LumpedFluxes(xv, AlphaOf(One), d) ELSE Zero)], n))


\* mutant: the first if does not test sumPos + sumNeg
Rescaled_NoSumTest(f, sumPos, sumNeg) ==
    LET second(f1) ==
            IF NLt(NAdd(sumPos, sumNeg), NNeg(Eps)) /\ NLt(f1, NNeg(Eps))
            THEN NMul(f1, NDiv(NNeg(sumPos), sumNeg)) ELSE f1
    IN  second(IF NLt(Eps, f)
               THEN NMul(f, NDiv(NNeg(sumNeg), sumPos)) ELSE f)

\* mutant: the fluxes are rescaled by sumNeg / sumPos, without the sign
Rescaled_NoSign(f, sumPos, sumNeg) ==
    LET second(f1) ==
            IF NLt(NAdd(sumPos, sumNeg), NNeg(Eps)) /\ NLt(f1, NNeg(Eps))
            THEN NMul(f1, NDiv(sumPos, sumNeg)) ELSE f1
    IN  second(IF NLt(Eps, NAdd(sumPos, sumNeg)) /\ NLt(Eps, f)
               THEN NMul(f, NDiv(sumNeg, sumPos)) ELSE f)

\* the second loop of ComputeFCTSolution: fClipped(j) after the two ifs
Rescaled(f, sumPos, sumNeg) ==
    LET second(f1) ==
            IF NLt(NAdd(sumPos, sumNeg), NNeg(Eps)) /\ NLt(f1, NNeg(Eps))
            THEN NMul(f1, NDiv(NNeg(sumPos), sumNeg)) ELSE f1
    IN  second(IF NLt(Eps, NAdd(sumPos, sumNeg)) /\ NLt(Eps, f)
               THEN NMul(f, NDiv(NNeg(sumNeg), sumPos)) ELSE f)

\* mutant: the high order value is not clipped
UClipped_NoClip(xi, u) == u

\* uClipped(j) = min(xi_max, max(x + dt*yH, xi_min)), xi = <<xi_min, xi_max>>
UClipped(xi, u) == NMin(xi[2], NMax(u, xi[1]))

\* The locals of ComputeFCTSolution for element k, fClipped before (f0) and
\* after the rescaling
FCTElem(xv, yHv, yLv, k) ==
    LET nd == NdOf(mesh)
        J  == 0 .. nd - 1
        second(xi, uC, f0, sumPos, sumNeg) ==
            [xi |-> xi, uClipped |-> uC, f0 |-> f0,
             sumPos |-> sumPos, sumNeg |-> sumNeg,
             fClipped |-> [j \in J |-> Rescaled(f0[j], sumPos, sumNeg)]]
        sums(xi, uC, f0) ==
            second(xi, uC, f0, NSum([j \in J |-> NMax(f0[j], Zero)], J),
                               NSum([j \in J |-> NMin(f0[j], Zero)], J))
        fluxes(xi, uC) ==
            sums(xi, uC,
                 Vector([j \in J |->
                     NMul(NDiv(lumpedM[k * nd + j], dt),
                          NSub(uC[j], NAdd(xv[k * nd + j],
                                           NMul(dt, yLv[k * nd + j]))))], nd))
        first(xi) ==
            fluxes(xi, Vector([j \in J |->
                           UClipped(xi[j], NAdd(xv[k * nd + j],
                                                NMul(dt, yHv[k * nd + j])))], nd))
    IN  first(Vector([j \in J |->
                  ComputeVertexBounds(map_for_bounds, xe_min, xe_max,
                                      k * nd + j)], nd))

\* ComputeFCTSolution(x, yH, yL, y): y, dofs.xi_min, dofs.xi_max and the locals
ComputeFCTSolution(xv, yHv, yLv) ==
    LET nd == NdOf(mesh)
        n  == Cardinality(Dofs(mesh))
        out(Ls) ==
            [y |-> Vector([d \in Dofs(mesh) |->
                       NAdd(yLv[d], NDiv(Ls[d \div nd + 1].fClipped[d % nd],
                                         lumpedM[d]))], n),
             xi_min |-> Vector([d \in Dofs(mesh) |->
                                   Ls[d \div nd + 1].xi[d % nd][1]], n),
             xi_max |-> Vector([d \in Dofs(mesh) |->
                                   Ls[d \div nd + 1].xi[d % nd][2]], n),
             fct |-> [k \in Elems(mesh) |->
                        [sumPos |-> Ls[k + 1].sumPos, sumNeg |-> Ls[k + 1].sumNeg,
                         uClipped |-> Vector(Ls[k + 1].uClipped, nd),
                         fClipped |-> Vector(Ls[k + 1].fClipped, nd)]]]
    IN  out(SeqOfFcn([k \in Elems(mesh) |-> FCTElem(xv, yHv, yLv, k)],
                     0, NumElems(mesh)))

-----------------------------------------------------------------------------
(* SpecFCT: ComputeFCTSolution on drawn x, yH and yL.  The DofInfo is built *)
(* on a mesh of segments of order 1, xe_min and xe_max are what the low     *)
(* order solution leaves for x.  The numbers are of the scale of eps.       *)

MaxFctElems == 2   \* elements of the meshes of SpecFCT
MaxRate == 1       \* yH, yL are drawn from -MaxRate .. MaxRate times Unit
MaxH == 2          \* lumpedM is h/2 for the element length h in 1 .. MaxH
MaxDtInv == 2      \* dt is 1/c for c in 1 .. MaxDtInv

RateVals == {NMul(NInt(v), Unit) : v \in (-MaxRate) .. MaxRate}
FctMeshes == {m \in Meshes1 : m.p = 1 /\ NumElems(m) <= MaxFctElems}

\* the rates that vanish outside of element k: the fluxes of an element
\* depend on the rates of its own dofs only
RatesOn(k) ==
    {f \in [Dofs(mesh) -> RateVals] : \A d \in Dofs(mesh) \ ElemDofs(k) : f[d] = Zero}

InitFCT ==
    /\ pc = "ComputeFCTSolution"
    /\ mesh \in FctMeshes
    /\ BdrDofs = ExtractBdrDofs(mesh.dim, mesh.p)
    /\ map_for_bounds = GetVertexBoundsMap(mesh, BdrDofs)
    /\ NbrDof = FillNeighborDofs(mesh, BdrDofs)
    /\ Sub2Ind = FillSubcell2CellDof(mesh)
    /\ x \in [Dofs(mesh) -> XVals]
    /\ \E k \in Elems(mesh) :
           /\ yH \in RatesOn(k)
           /\ yL \in RatesOn(k)
    /\ dt \in {NDiv(One, NInt(c)) : c \in 1 .. MaxDtInv}
    /\ \E h \in 1 .. MaxH : lumpedM = [d \in Dofs(mesh) |-> NDiv(NInt(h), NInt(2))]
    /\ xe_min = [k \in Elems(mesh) |-> ElemMin(x, k)]
    /\ xe_max = [k \in Elems(mesh) |-> ElemMax(x, k)]
    /\ xi_min = [d \in Dofs(mesh) |-> Unset]
    /\ xi_max = [d \in Dofs(mesh) |-> Unset]
    /\ y = Unset /\ fct = Unset
    /\ DUUnused
    /\ MonoType = Unused /\ OptScheme = Unused /\ exec_mode = Unused
    /\ velocity = Unused /\ M = Unused /\ b = Unused /\ bdrInt = Unused
    /\ SubcellWeights = Unused /\ z = Unused /\ calls = Unused
    /\ iter = Unused /\ resid = Unused /\ rd = Unused
    /\ args = Unused /\ rc = Unused /\ pk = Unused
    /\ time = Unused /\ start_pos = Unused /\ vel_pos = Unused
    /\ mesh_pos = Unused /\ evals = Unused
    /\ VolumeTerms = Unused /\ subcell_mesh = Unused

\* ComputeFCTSolution(x, yH, yL, y);
Call_ComputeFCTSolution ==
    /\ pc = "ComputeFCTSolution"
    /\ \E r \in {ComputeFCTSolution(x, yH, yL)} :
           /\ y' = r.y
           /\ xi_min' = r.xi_min
           /\ xi_max' = r.xi_max
           /\ fct' = r.fct
    /\ pc' = "done"
    /\ UNCHANGED <<topoVars, xe_min, xe_max, duVars, evoVars, z, x, yH, yL, calls, iter,
                   resid, rd, mainVars>>

NextFCT == Call_ComputeFCTSolution

SpecFCT == InitFCT /\ [][NextFCT]_vars

-----------------------------------------------------------------------------
(* Claims about ComputeFCTSolution.                                         *)

\* the forward Euler value of dof d with the rate yv
Euler(yv, d) == NAdd(x[d], NMul(dt, yv[d]))

InBounds(u, d) == NLeq(xi_min[d], u) /\ NLeq(u, xi_max[d])

SumClipped(k) == NSum(fct[k].fClipped, DOMAIN fct[k].fClipped)

\* C1: for every element, with lumpedM > 0 and dt > 0, after the rescaling the
\* sum of fClipped over the dofs of the element is zero within the tolerance
\* nd * eps whenever |sumPos + sumNeg| > eps.
C1_FluxesSumToZero ==
    pc = "done" =>
        \A k \in Elems(mesh) :
            NLt(Eps, NAbs(NAdd(fct[k].sumPos, fct[k].sumNeg))) =>
                NLeq(NAbs(SumClipped(k)), NMul(NInt(NdOf(mesh)), Eps))

\* positive and negative fluxes of an element, the positive ones prevail by
\* more than eps and were scaled down to cancel the negative ones
C1_Witness ==
    /\ pc = "done"
    /\ \E k \in Elems(mesh) :
           /\ NLt(Eps, NAdd(fct[k].sumPos, fct[k].sumNeg))
           /\ NLt(fct[k].sumNeg, Zero)
           /\ SumClipped(k) = Zero
           /\ \E j \in DOMAIN fct[k].fClipped : NLt(Eps, fct[k].fClipped[j])

-----------------------------------------------------------------------------
(* SpecMult: one call of FE_Evolution::Mult in transport mode (exec_mode 0) *)
(* on a mesh of segments of order 1, with what main has assembled for it.   *)
(* OptScheme is off: the matrix lom.pk of the optimized discrete upwinding  *)
(* comes from an integrator that is not part of the repository.  The state  *)
(* x is drawn at the scale of eps, where the sums with eps are exact; the   *)
(* uniform state 1 is run through the low order schemes.                    *)

MaxVel == 2        \* the velocity is drawn from -MaxVel .. MaxVel without 0

\* mutant: the odd types take the FCT branch, the even ones the low order one
MultBranch_Swapped(mt) ==
    IF mt = 0 THEN "high" ELSE IF mt % 2 = 1 THEN "fct" ELSE "low"

\* if (lom.MonoType == 0) ... else if (lom.MonoType % 2 == 1) ... else if
\* (lom.MonoType % 2 == 0) ...
MultBranch(mt) ==
    IF mt = 0 THEN "high"
    ELSE IF mt % 2 = 1 THEN "low"
    ELSE IF mt % 2 = 0 THEN "fct" ELSE "none"

InitMult ==
    /\ pc = "Mult"
    /\ mesh \in FctMeshes
    /\ BdrDofs = ExtractBdrDofs(mesh.dim, mesh.p)
    /\ map_for_bounds = GetVertexBoundsMap(mesh, BdrDofs)
    /\ NbrDof = FillNeighborDofs(mesh, BdrDofs)
    /\ Sub2Ind = FillSubcell2CellDof(mesh)
    /\ MonoType \in None .. ResDist_FCT
    /\ OptScheme = FALSE
    /\ exec_mode = 0
    /\ velocity \in {NInt(v) : v \in ((-MaxVel) .. MaxVel) \ {0}}
    /\ \E s \in {Unit} \cup (IF MonoType \in {DiscUpw, ResDist} THEN {One} ELSE {}) :
           /\ x \in IF s = One THEN {[d \in Dofs(mesh) |-> One]}
                    ELSE [Dofs(mesh) -> XVals]
           /\ \E inflow \in {Zero, s} : b = BoundaryLoad(mesh, velocity, inflow)
    /\ M = MassMatrix(mesh)
    /\ lumpedM = LumpedMass(mesh)
    /\ K = AdvectionMatrix(mesh, velocity, MonoType, OptScheme)
    /\ smap = IF IsDU(MonoType) THEN SparseMatrix_Build_smap(K) ELSE Unset
    /\ D = IF IsDU(MonoType)
           THEN ComputeDiscreteUpwindingMatrix(K, SparseMatrix_Build_smap(K), K)
           ELSE Unset
    /\ bdrInt = IF NeedBdr(MonoType, OptScheme)
                THEN AssembleBdrInt(mesh, exec_mode, velocity) ELSE Unset
    /\ SubcellWeights = Unset
    /\ dt \in {NDiv(One, NInt(c)) : c \in 1 .. MaxDtInv}
    /\ xe_min = [k \in Elems(mesh) |-> Unset]
    /\ xe_max = [k \in Elems(mesh) |-> Unset]
    /\ xi_min = [d \in Dofs(mesh) |-> Unset]
    /\ xi_max = [d \in Dofs(mesh) |-> Unset]
    /\ z = Unset /\ y = Unset /\ yH = Unset /\ yL = Unset /\ fct = Unset
    /\ calls = <<>>
    /\ iter = Unused /\ resid = Unused /\ rd = Unused
    /\ args = Unused /\ rc = Unused /\ pk = Unused
    /\ time = Unused /\ start_pos = Unused /\ vel_pos = Unused
    /\ mesh_pos = Unused /\ evals = Unused
    /\ VolumeTerms = Unused /\ subcell_mesh = Unused

\* Mult up to the choice of the branch
Mult_Dispatch ==
    /\ pc = "Mult"
    /\ pc' = CASE MultBranch(MonoType) = "high" -> "HighOrderOnly"
               [] MultBranch(MonoType) = "low"  -> "LowOrderOnly"
               [] MultBranch(MonoType) = "fct"  -> "FCT_LowOrder"
               [] OTHER -> "return"
    /\ UNCHANGED <<topoVars, bndVars, duVars, evoVars, vecVars,
                   mainVars>>

\* ComputeHighOrderSolution(x, y);
Mult_HighOrderOnly ==
    /\ pc = "HighOrderOnly"
    /\ \E r \in {ComputeHighOrderSolution(x)} : y' = r.y /\ z' = r.z
    /\ calls' = Append(calls, "ComputeHighOrderSolution")
    /\ UNCHANGED <<iter, resid, rd, mainVars>>
    /\ pc' = "return"
    /\ UNCHANGED <<topoVars, bndVars, duVars, evoVars, x, yH, yL, fct>>

\* ComputeLowOrderSolution(x, y);
Mult_LowOrderOnly ==
    /\ pc = "LowOrderOnly"
    /\ \E r \in {ComputeLowOrderSolution(x)} :
           /\ y' = r.y /\ z' = r.z /\ D' = r.D
           /\ xe_min' = r.xe_min /\ xe_max' = r.xe_max
           /\ subcell_mesh' = r.subcell_mesh
           /\ SubcellWeights' = r.SubcellWeights
    /\ calls' = Append(calls, "ComputeLowOrderSolution")
    /\ UNCHANGED <<iter, resid, rd, mainVars>>
    /\ pc' = "return"
    /\ UNCHANGED <<topoVars, xi_min, xi_max, K, smap, cfgVars, asmVars, x, yH, yL,
                   fct>>

\* ComputeLowOrderSolution(x, yL);
Mult_FCT_LowOrder ==
    /\ pc = "FCT_LowOrder"
    /\ \E r \in {ComputeLowOrderSolution(x)} :
           /\ yL' = r.y /\ z' = r.z /\ D' = r.D
           /\ xe_min' = r.xe_min /\ xe_max' = r.xe_max
           /\ subcell_mesh' = r.subcell_mesh
           /\ SubcellWeights' = r.SubcellWeights
    /\ calls' = Append(calls, "ComputeLowOrderSolution")
    /\ UNCHANGED <<iter, resid, rd, mainVars>>
    /\ pc' = "FCT_HighOrder"
    /\ UNCHANGED <<topoVars, xi_min, xi_max, K, smap, cfgVars, asmVars, x, y, yH,
                   fct>>

\* ComputeHighOrderSolution(x, yH);
Mult_FCT_HighOrder ==
    /\ pc = "FCT_HighOrder"
    /\ \E r \in {ComputeHighOrderSolution(x)} : yH' = r.y /\ z' = r.z
    /\ calls' = Append(calls, "ComputeHighOrderSolution")
    /\ UNCHANGED <<iter, resid, rd, mainVars>>
    /\ pc' = "FCT_Clip"
    /\ UNCHANGED <<topoVars, bndVars, duVars, evoVars, x, y, yL, fct>>

\* ComputeFCTSolution(x, yH, yL, y);
Mult_FCT_Clip ==
    /\ pc = "FCT_Clip"
    /\ \E r \in {ComputeFCTSolution(x, yH, yL)} :
           /\ y' = r.y /\ fct' = r.fct
           /\ xi_min' = r.xi_min /\ xi_max' = r.xi_max
    /\ calls' = Append(calls, "ComputeFCTSolution")
    /\ UNCHANGED <<iter, resid, rd, mainVars>>
    /\ pc' = "return"
    /\ UNCHANGED <<topoVars, xe_min, xe_max, duVars, evoVars, z, x, yH, yL>>

NextMult ==
    \/ Mult_Dispatch
    \/ Mult_HighOrderOnly
    \/ Mult_LowOrderOnly
    \/ Mult_FCT_LowOrder
    \/ Mult_FCT_HighOrder
    \/ Mult_FCT_Clip

SpecMult == InitMult /\ [][NextMult]_vars

-----------------------------------------------------------------------------
(* Claims about Mult.                                                       *)

\* C3: Mult chooses the update from MonoType alone: None runs only
\* ComputeHighOrderSolution; DiscUpw and ResDist run only
\* ComputeLowOrderSolution; DiscUpw_FCT and ResDist_FCT run
\* ComputeLowOrderSolution, ComputeHighOrderSolution and ComputeFCTSolution in
\* that order and return the result of ComputeFCTSolution.
C3_BranchByMonoType ==
    pc = "return" =>
        /\ MonoType = None =>
               /\ calls = <<"ComputeHighOrderSolution">>
               /\ y = ComputeHighOrderSolution(x).y
        /\ MonoType \in {DiscUpw, ResDist} =>
               /\ calls = <<"ComputeLowOrderSolution">>
               /\ y = ComputeLowOrderSolution(x).y
        /\ MonoType \in {DiscUpw_FCT, ResDist_FCT} =>
               /\ calls = <<"ComputeLowOrderSolution", "ComputeHighOrderSolution",
                            "ComputeFCTSolution">>
               /\ yL = ComputeLowOrderSolution(x).y
               /\ yH = ComputeHighOrderSolution(x).y
               /\ y = ComputeFCTSolution(x, yH, yL).y

\* Mult has returned from the FCT branch with a result that is neither the
\* low order nor the high order rate
C3_Witness ==
    /\ pc = "return"
    /\ MonoType = ResDist_FCT
    /\ Len(calls) = 3
    /\ y # yL /\ y # yH

\* the scenario of C6: two segments of order 1, the uniform state 1, no
\* boundary load, a positive velocity, a low order scheme that has returned
UniformScenario ==
    /\ pc = "return"
    /\ MonoType \in {DiscUpw, ResDist}
    /\ NumElems(mesh) = 2
    /\ \A d \in Dofs(mesh) : x[d] = One /\ b[d] = Zero
    /\ NLt(Zero, velocity)

\* the dofs on a face of the boundary of the domain through which the
\* velocity enters
InflowDofs ==
    {d \in Dofs(mesh) :
        \E i \in Slots(mesh) :
            /\ SlotDof(mesh, d \div NdOf(mesh), i) = d
            /\ NbrElemOf(mesh, d \div NdOf(mesh), i) < 0
            /\ NLt(NMul(velocity, NInt(SlotSide(1, i))), Zero)}

\* C6 as stated: in the scenario the low order update returns the rate 0 at
\* every dof.
C6_UniformIsFixedPoint ==
    UniformScenario => \A d \in Dofs(mesh) : y[d] = Zero

\* C6 amended: in the scenario the low order update returns the rate 0 at
\* every dof that is not on the inflow boundary of the domain, so at every dof
\* of a periodic mesh; at the dof on the inflow boundary the rate is
\* -velocity / lumpedM, the state flowing out against an inflow of zero.
C6_UniformUpToInflow ==
    UniformScenario =>
        \A d \in Dofs(mesh) :
            y[d] = IF d \in InflowDofs
                   THEN NNeg(NDiv(velocity, lumpedM[d])) ELSE Zero

\* the residual distribution scheme has returned in the scenario on the mesh
\* with a boundary
C6_Witness ==
    /\ UniformScenario
    /\ MonoType = ResDist
    /\ InflowDofs # {}
    /\ \E d \in Dofs(mesh) : y[d] # Zero

-----------------------------------------------------------------------------
(* SpecCommon: DofInfo::GetCommonElem(el, el1, el2) on every mesh of order 1 *)
(* of Meshes and every triple of arguments, -1 included.                    *)

CommonMeshes == {m \in Meshes : m.p = 1}

InitCommon ==
    /\ mesh \in CommonMeshes
    /\ pc \in {[at |-> "GetCommonElem", el |-> u[1], el1 |-> u[2], el2 |-> u[3]] :
                  u \in ((-1) .. NumElems(mesh) - 1) \X ((-1) .. NumElems(mesh) - 1)
                        \X ((-1) .. NumElems(mesh) - 1)}
    /\ BdrDofs = Unused /\ map_for_bounds = Unused
    /\ NbrDof = Unused /\ Sub2Ind = Unused
    /\ BndUnused /\ DUUnused /\ EvoUnused /\ VecUnused

\* GetCommonElem(el, el1, el2): the value returned, or mfem_error
Call_GetCommonElem ==
    /\ pc.at = "GetCommonElem"
    /\ \E r \in {GetCommonElem(NbrTable(mesh), pc.el, pc.el1, pc.el2)} :
           pc' = IF r = ErrElem THEN [pc EXCEPT !.at = "mfem_error"]
                 ELSE [at |-> "returned", el |-> pc.el, el1 |-> pc.el1,
                       el2 |-> pc.el2, ret |-> r]
    /\ UNCHANGED <<topoVars, bndVars, duVars, evoVars, vecVars,
                   mainVars>>

NextCommon == Call_GetCommonElem

SpecCommon == InitCommon /\ [][NextCommon]_vars

\* element c shares a face with element a
FaceAdjacent(m, a, c) == \E i \in Slots(m) : NbrElemOf(m, a, i) = c

\* the elements other than el that share a face with both el1 and el2
CommonElems(m, el, el1, el2) ==
    {c \in Elems(m) \ {el} : FaceAdjacent(m, el1, c) /\ FaceAdjacent(m, el2, c)}

-----------------------------------------------------------------------------
(* SpecSub2Ind: the loop of DofInfo::FillSubcell2CellDof over the subcells, *)
(* on one element of every dimension and every order up to MaxPSub.         *)

MaxPSub == 4    \* order of the element of SpecSub2Ind

SubMeshes == {GridMesh(dim, <<1, 1, 1>>, <<FALSE, FALSE, FALSE>>, p) :
                 dim \in 1 .. 3, p \in 1 .. MaxPSub}

\* Sub2Ind.SetSize(numSubcells, numDofsSubcell);
InitSub2Ind ==
    /\ mesh \in SubMeshes
    /\ pc = [at |-> "FillSubcell2CellDof", m |-> 0]
    /\ Sub2Ind = [u \in (0 .. NumSubcellsOf(mesh) - 1)
                        \X (0 .. NumDofsSubcellOf(mesh) - 1) |-> Unset]
    /\ BdrDofs = Unused /\ map_for_bounds = Unused /\ NbrDof = Unused
    /\ BndUnused /\ DUUnused /\ EvoUnused /\ VecUnused

\* one round of for (m = 0; m < numSubcells; m++): the row m of Sub2Ind
FillSubcell2CellDof_Row ==
    /\ pc.at = "FillSubcell2CellDof"
    /\ Sub2Ind' = [u \in DOMAIN Sub2Ind |->
                      IF u[1] = pc.m
                      THEN Sub2IndEntry(mesh.dim, mesh.p, u[1], u[2])
                      ELSE Sub2Ind[u]]
    /\ pc' = [at |-> IF pc.m + 1 = NumSubcellsOf(mesh) THEN "built"
                      ELSE "FillSubcell2CellDof",
              m |-> pc.m + 1]
    /\ UNCHANGED <<mesh, BdrDofs, map_for_bounds, NbrDof, bndVars, duVars,
                   evoVars, vecVars,
                   mainVars>>

NextSub2Ind == FillSubcell2CellDof_Row

SpecSub2Ind == InitSub2Ind /\ [][NextSub2Ind]_vars

\* the tensor-product index ix + (p+1) iy + (p+1)^2 iz of corner j of subcell
\* mm: the subcell at (mm % p, (mm / p) % p, mm / p^2), the corner at the
\* offset (j % 2, (j / 2) % 2, j / 4)
CornerIndex(p, mm, j) ==
    ((mm % p) + (j % 2))
    + (p + 1) * (((mm \div p) % p) + ((j \div 2) % 2))
    + (p + 1) * (p + 1) * ((mm \div (p * p)) + (j \div 4))

\* C12: Sub2Ind has p^dim rows and 2^dim columns, Sub2Ind(m, j) is the
\* tensor-product index of corner j of subcell m, every entry lies in
\* 0 .. (p+1)^dim - 1, the corners of a subcell are pairwise distinct and every
\* local dof is a corner of some subcell.
C12_Sub2IndTensorProduct ==
    pc.at = "built" =>
        LET p    == mesh.p
            rows == 0 .. Pw(p, mesh.dim) - 1
            cols == 0 .. Pw(2, mesh.dim) - 1
        IN  /\ DOMAIN Sub2Ind = rows \X cols
            /\ \A u \in rows \X cols :
                   /\ Sub2Ind[u] = CornerIndex(p, u[1], u[2])
                   /\ Sub2Ind[u] \in 0 .. Pw(p + 1, mesh.dim) - 1
            /\ \A mm \in rows : \A i, j \in cols :
                   i # j => Sub2Ind[<<mm, i>>] # Sub2Ind[<<mm, j>>]
            /\ \A loc \in 0 .. Pw(p + 1, mesh.dim) - 1 :
                   \E u \in rows \X cols : Sub2Ind[u] = loc

\* the table of a hex of order 3 or more is complete: the last corner of the
\* last subcell is the last dof, and a subcell of the second layer starts
\* beyond its own number
C12_Witness ==
    /\ pc.at = "built"
    /\ mesh.dim = 3 /\ mesh.p >= 3
    /\ Sub2Ind[<<NumSubcellsOf(mesh) - 1, 7>>] = NdOf(mesh) - 1
    /\ Sub2Ind[<<mesh.p * mesh.p, 0>>] = (mesh.p + 1) * (mesh.p + 1)

-----------------------------------------------------------------------------
(* Claims about ComputeHighOrderSolution, under SpecMult.                   *)

\* ComputeHighOrderSolution has returned in this call of Mult; z is not
\* written after it
HighOrderDone ==
    \/ pc = "return" /\ MonoType \in {None, DiscUpw_FCT, ResDist_FCT}
    \/ pc = "FCT_Clip"

\* the flux lumping contributions with alpha = 1 to dof d from the boundary
\* integrals bdr: for alpha = 1 the term of (i, j) is bdr(k,slot,i*numDofs+j)
\* times xDiff(j), summed over the slots and positions i of the dof
FluxTermsAlphaOne(bdr, xv, d) ==
    LET k == d \div NdOf(mesh)
        J == 0 .. NumDofsOf(mesh) - 1
        P == {u \in Slots(mesh) \X J : BdrDofs[<<u[2], u[1]>>] = d % NdOf(mesh)}
    IN  NSum([u \in P |->
                NSum([j \in J |->
                        NMul(bdr[<<k, u[1], u[2] * NumDofsOf(mesh) + j>>],
                             XDiff(k, u[1], xv, j))], J)], P)

\* the upwind DG residual of dof d: convection and face integrals of every
\* face, and the boundary load
UpwindResidual(xv, d) ==
    NAdd(SpMult(AdvectionMatrix(mesh, velocity, DiscUpw, FALSE), xv, d), b[d])

-----------------------------------------------------------------------------
(* SpecEval: the evaluations of FE_Evolution::Mult that the time stepper    *)
(* makes one after the other, in transport and in remap mode, on a mesh of  *)
(* two segments with what main has set up for it.  Order 1 runs the five    *)
(* schemes without the optimized scheme, order 2 the residual distribution  *)
(* schemes with it (main switches it off for order 1).  In remap mode the   *)
(* nodes move with the mesh velocity, which main zeroes on the boundary.    *)

MaxCalls == 3      \* evaluations of Mult in one run
MaxTime4 == 1      \* the evaluations are at the times 0 .. MaxTime4 quarters

TimeVals == {NDiv(NInt(c), NInt(4)) : c \in 0 .. MaxTime4}
EvalMeshes == {m \in Meshes1 : NumElems(m) = 2}

\* the states x of the evaluations: alternating, a step between the elements,
\* uniform, in multiples of s
EvalStates(m, s) ==
    {[d \in Dofs(m) |-> NMul(NInt(d % 2), s)],
     [d \in Dofs(m) |-> NMul(NInt(d \div NdOf(m)), s)],
     [d \in Dofs(m) |-> s]}

\* the scale of the states: where eps enters the scheme, the states are of
\* the scale of eps; without a limiter they are large enough for NeumannSolve
\* to iterate
EvalScale(mt) == IF mt = None THEN NSci(3, -4) ELSE NMul(NInt(3), Unit)

\* 30 times the integrals of the Bernstein basis of order p on [0, 1]:
\* phi_i phi_j, phi_i phi_j' (1 - s) and phi_i phi_j' s
BernsteinMass30(p) ==
    IF p = 0 THEN <<<<30>>>>
    ELSE IF p = 1 THEN <<<<10, 5>>, <<5, 10>>>>
    ELSE <<<<6, 3, 1>>, <<3, 4, 3>>, <<1, 3, 6>>>>
BernsteinGradL30(p) ==
    IF p = 1 THEN <<<<-10, 10>>, <<-5, 5>>>>
    ELSE <<<<-12, 9, 3>>, <<-6, 2, 4>>, <<-2, -1, 3>>>>
BernsteinGradR30(p) ==
    IF p = 1 THEN <<<<-5, 5>>, <<-10, 10>>>>
    ELSE <<<<-3, 1, 2>>, <<-4, -2, 6>>, <<-3, -9, 12>>>>

\* the nodes of the mesh: the two ends of every segment
Nodes(m) == Elems(m) \X {0, 1}

\* x0 = *mesh->GetNodes(): segments of length 1
StartPos(m) == [u \in Nodes(m) |-> NInt(u[1] + u[2])]

\* v_gf.ProjectCoefficient(velocity), zeroed on the boundary of the domain
MeshVelocity(m, v) ==
    [u \in Nodes(m) |-> IF NbrElemOf(m, u[1], u[2]) < 0 THEN Zero ELSE v]

\* add(start_pos, t, vel_pos, mesh_pos)
MovedPos(sp, tt, vp) == [u \in DOMAIN sp |-> NAdd(sp[u], NMul(tt, vp[u]))]

ElemLength(pos, k) == NSub(pos[<<k, 1>>], pos[<<k, 0>>])

\* Mbf.Assemble() on the mesh with the nodes pos
MassAt(m, pos) ==
    [q \in ElemBlocks(m) |->
        NMul(ElemLength(pos, q[1] \div NdOf(m)),
             NDiv(NInt(BernsteinMass30(m.p)[(q[1] % NdOf(m)) + 1][(q[2] % NdOf(m)) + 1]),
                  NInt(30)))]

\* ml.Assemble(), ml.SpMat().GetDiag(lumpedM) on the mesh with the nodes pos
LumpedMassAt(m, pos) ==
    [d \in Dofs(m) |-> NDiv(ElemLength(pos, d \div NdOf(m)), NInt(m.p + 1))]

\* ConvectionIntegrator(velocity, -1.0) in transport mode,
\* ConvectionIntegrator(v_coef) in remap mode: the entry q
ConvectionAt(m, emode, v, vp, q) ==
    LET k  == q[1] \div NdOf(m)
        i  == (q[1] % NdOf(m)) + 1
        j  == (q[2] % NdOf(m)) + 1
        gl == NDiv(NInt(BernsteinGradL30(m.p)[i][j]), NInt(30))
        gr == NDiv(NInt(BernsteinGradR30(m.p)[i][j]), NInt(30))
    IN  IF emode = 0 THEN NNeg(NMul(v, NAdd(gl, gr)))
        ELSE NAdd(NMul(vp[<<k, 0>>], gl), NMul(vp[<<k, 1>>], gr))

\* the velocity that the face integrators of k see on the face f:
\* DGTraceIntegrator(velocity, 1.0, -0.5) in transport mode,
\* DGTraceIntegrator(v_coef, -1.0, -0.5) in remap mode
FaceVelocity(m, emode, v, vp, f) ==
    IF emode = 0 THEN v
    ELSE NNeg(vp[<<Elem1No(m, f), FindFace(m, Elem1No(m, f), f, 0)>>])

\* Kbf.Assemble(0) on the mesh with the nodes pos
AdvectionAt(m, emode, v, vp, mt, opt) ==
    IF IsDU(mt) /\ ~ opt
    THEN [q \in ElemBlocks(m) \cup FaceBlocks(m) |->
             NAdd(IF q \in ElemBlocks(m) THEN ConvectionAt(m, emode, v, vp, q)
                  ELSE Zero,
                  NSum([f \in DOMAIN m.faces |->
                           FaceEntry(m, FaceVelocity(m, emode, v, vp, f), f, q)],
                       DOMAIN m.faces))]
    ELSE [q \in ElemBlocks(m) |-> ConvectionAt(m, emode, v, vp, q)]

\* bdrInt.SetSize(ne, numBdrs, numDofs*numDofs); bdrInt = 0.;
ZeroBdrInt(m) ==
    [u \in Elems(m) \X Slots(m) \X (0 .. NumDofsOf(m) * NumDofsOf(m) - 1) |-> Zero]

\* mutant: the flux terms are added to what bdrInt holds
FluxTermsAt_NoZero(m, emode, v, vp, old) ==
    [u \in Elems(m) \X Slots(m) \X (0 .. NumDofsOf(m) * NumDofsOf(m) - 1) |->
        ComputeFluxTerms(m, emode, IF emode = 0 THEN v ELSE vp[<<u[1], u[2]>>],
                         [e \in 0 .. NumDofsOf(m) * NumDofsOf(m) - 1 |->
                             old[<<u[1], u[2], e>>]],
                         u[1], u[2])[u[3]]]

\* asmbl.bdrInt = 0.; for (k ...) for (i ...) ComputeFluxTerms(k, i, Trans,
\* lom): the new bdrInt, lom.coef being velocity in transport mode and v_coef
\* in remap mode
FluxTermsAt(m, emode, v, vp, old) ==
    [u \in Elems(m) \X Slots(m) \X (0 .. NumDofsOf(m) * NumDofsOf(m) - 1) |->
        ComputeFluxTerms(m, emode, IF emode = 0 THEN v ELSE vp[<<u[1], u[2]>>],
                         [e \in 0 .. NumDofsOf(m) * NumDofsOf(m) - 1 |-> Zero],
                         u[1], u[2])[u[3]]]

InitEval ==
    /\ pc = "Step"
    /\ mesh \in EvalMeshes
    /\ BdrDofs = ExtractBdrDofs(mesh.dim, mesh.p)
    /\ map_for_bounds = GetVertexBoundsMap(mesh, BdrDofs)
    /\ NbrDof = FillNeighborDofs(mesh, BdrDofs)
    /\ Sub2Ind = FillSubcell2CellDof(mesh)
    /\ MonoType \in IF mesh.p = 1 THEN None .. ResDist_FCT
                    ELSE {ResDist, ResDist_FCT}
    /\ OptScheme = (mesh.p > 1)
    /\ exec_mode \in {0, 1}
    /\ velocity \in {NInt(-1), One}
    /\ time = Zero
    /\ start_pos = StartPos(mesh)
    /\ vel_pos = MeshVelocity(mesh, velocity)
    /\ mesh_pos = start_pos
    /\ M = MassAt(mesh, mesh_pos)
    /\ lumpedM = LumpedMassAt(mesh, mesh_pos)
    /\ K = AdvectionAt(mesh, exec_mode, velocity, vel_pos, MonoType, OptScheme)
    /\ smap = IF IsDU(MonoType) THEN SparseMatrix_Build_smap(K) ELSE Unset
    /\ D = IF ~ IsDU(MonoType) THEN Unset
           ELSE IF exec_mode = 1 THEN K
           ELSE ComputeDiscreteUpwindingMatrix(K, SparseMatrix_Build_smap(K), K)
    /\ b = [d \in Dofs(mesh) |-> Zero]
    /\ bdrInt = IF ~ NeedBdr(MonoType, OptScheme) THEN Unset
                ELSE IF exec_mode = 0
                THEN FluxTermsAt(mesh, exec_mode, velocity, vel_pos,
                                 ZeroBdrInt(mesh))
                ELSE ZeroBdrInt(mesh)
    /\ VolumeTerms \in IF ~ NeedSubcells(MonoType, OptScheme) THEN {Unset}
                       ELSE {[w |-> <<velocity, NNeg(velocity)>>, slope |-> NInt(c)] :
                                c \in 0 .. 1}
    /\ SubcellWeights = IF ~ NeedSubcells(MonoType, OptScheme) THEN Unset
                        ELSE IF exec_mode = 0
                        THEN AssembleSubcellWeights(VolumeTerms, Zero)
                        ELSE [u \in Elems(mesh) \X (0 .. NumSubcellsOf(mesh) - 1)
                                    \X (0 .. NumDofsSubcellOf(mesh) - 1) |-> Unset]
    /\ subcell_mesh = IF NeedSubcells(MonoType, OptScheme) /\ exec_mode = 0
                      THEN "lom.subcell_mesh" ELSE Unset
    /\ dt = NDiv(One, NInt(MaxDtInv))
    /\ xe_min = [k \in Elems(mesh) |-> Unset]
    /\ xe_max = [k \in Elems(mesh) |-> Unset]
    /\ xi_min = [d \in Dofs(mesh) |-> Unset]
    /\ xi_max = [d \in Dofs(mesh) |-> Unset]
    /\ x = Unset /\ z = Unset /\ y = Unset /\ yH = Unset /\ yL = Unset
    /\ fct = Unset
    /\ calls = <<>>
    /\ iter = Unused /\ resid = Unused /\ rd = Unused
    /\ args = Unused /\ rc = Unused /\ pk = Unused
    /\ evals = <<>>

\* ode_solver->Step(u, t, dt_real): the solver sets the time and calls
\* Mult(x, y) for a stage
Step_CallMult ==
    /\ pc = "Step"
    /\ Len(evals) < MaxCalls
    /\ x' \in EvalStates(mesh, EvalScale(MonoType))
    /\ time' \in TimeVals
    /\ yH' = Unset /\ yL' = Unset /\ fct' = Unset
    /\ calls' = <<>>
    /\ UNCHANGED <<iter, resid, rd, mainVars>>
    /\ pc' = IF exec_mode = 1 THEN "Mult_add" ELSE "Mult"
    /\ UNCHANGED <<topoVars, bndVars, duVars, MonoType, OptScheme, exec_mode,
                   velocity, b, dt, start_pos, vel_pos, evals, VolumeTerms,
                   asmVars, SubcellWeights, subcell_mesh, z, y>>

\* if (exec_mode == 1) add(start_pos, t, vel_pos, mesh_pos);
Mult_MovePositions ==
    /\ pc = "Mult_add"
    /\ mesh_pos' = MovedPos(start_pos, time, vel_pos)
    /\ calls' = Append(calls, "add")
    /\ UNCHANGED <<iter, resid, rd, mainVars>>
    /\ pc' = "Mult_Assemble"
    /\ UNCHANGED <<topoVars, bndVars, duVars, cfgVars, M, lumpedM, bdrInt,
                   SubcellWeights, subcell_mesh, z, x, y, yH, yL, fct>>

\* Mbf.Assemble(); Kbf.Assemble(0); ml.Assemble(); GetDiag(lumpedM);
Mult_Reassemble ==
    /\ pc = "Mult_Assemble"
    /\ M' = MassAt(mesh, mesh_pos)
    /\ K' = AdvectionAt(mesh, exec_mode, velocity, vel_pos, MonoType, OptScheme)
    /\ lumpedM' = LumpedMassAt(mesh, mesh_pos)
    /\ calls' = calls \o <<"Mbf.Assemble", "Kbf.Assemble", "ml.Assemble">>
    /\ UNCHANGED <<iter, resid, rd, mainVars>>
    /\ pc' = IF NeedBdr(MonoType, OptScheme) THEN "Mult_FluxTerms" ELSE "Mult"
    /\ UNCHANGED <<topoVars, bndVars, D, smap, cfgVars, bdrInt, mesh_pos,
                   SubcellWeights, subcell_mesh, z, x, y, yH, yL, fct>>

\* if (NeedBdr) { asmbl.bdrInt = 0.; ... asmbl.ComputeFluxTerms(k, i, ...) }
Mult_FluxTerms ==
    /\ pc = "Mult_FluxTerms"
    /\ bdrInt' = FluxTermsAt(mesh, exec_mode, velocity, vel_pos, bdrInt)
    /\ calls' = Append(calls, "ComputeFluxTerms")
    /\ UNCHANGED <<iter, resid, rd, mainVars>>
    /\ pc' = "Mult"
    /\ UNCHANGED <<topoVars, bndVars, duVars, cfgVars, M, lumpedM, mesh_pos,
                   SubcellWeights, subcell_mesh, z, x, y, yH, yL, fct>>

\* delete asmbl.subcell_mesh; delete asmbl.SubFes0; delete asmbl.SubFes1; in
\* the first evaluation of remap mode: the constructor of Assembly sets the
\* pointers in transport mode only, the delete of an indeterminate pointer
\* can end the run (the other outcome is the step of the low order solution)
Mult_DeleteIndeterminate ==
    /\ pc \in {"LowOrderOnly", "FCT_LowOrder"}
    /\ ~ IsDU(MonoType) /\ exec_mode = 1 /\ OptScheme
    /\ subcell_mesh = Unset
    /\ pc' = "crash"
    /\ UNCHANGED <<topoVars, bndVars, duVars, evoVars, vecVars,
                   mainVars>>

\* Mult returns to the solver
Step_Return ==
    /\ pc = "return"
    /\ evals' = Append(evals, <<time, x, y>>)
    /\ pc' = "Step"
    /\ UNCHANGED <<topoVars, bndVars, duVars, MonoType, OptScheme, exec_mode,
                   velocity, b, dt, time, start_pos, vel_pos, VolumeTerms,
                   asmVars, SubcellWeights, subcell_mesh, vecVars,
                   mainVars>>

NextEval ==
    \/ Step_CallMult
    \/ Mult_MovePositions
    \/ Mult_Reassemble
    \/ Mult_FluxTerms
    \/ Mult_Dispatch
    \/ Mult_HighOrderOnly
    \/ Mult_LowOrderOnly
    \/ Mult_FCT_LowOrder
    \/ Mult_FCT_HighOrder
    \/ Mult_FCT_Clip
    \/ Mult_DeleteIndeterminate
    \/ Step_Return

SpecEval == InitEval /\ [][NextEval]_vars

-----------------------------------------------------------------------------
(* Claims about the evaluations.                                            *)

\* the positions of Mult from the choice of the branch on: the steps that
\* read the matrices, bdrInt and the subcell weights run from here
ReadPositions ==
    {"Mult", "HighOrderOnly", "LowOrderOnly", "FCT_LowOrder", "FCT_HighOrder",
     "FCT_Clip", "return"}

\* the residual distribution step of this call has run and z is still K x
AfterLowOrderRD ==
    \/ pc = "return" /\ MonoType = ResDist
    \/ pc = "FCT_HighOrder" /\ MonoType = ResDist_FCT

\* the rates of the residual distribution step with the subcell weights sw
RatesWith(sw) ==
    Vector(LowOrderRD(x, Vector([d \in Dofs(mesh) |-> SpMult(K, x, d)],
                                Cardinality(Dofs(mesh))), sw),
           Cardinality(Dofs(mesh)))

\* C14: in remap mode, at every position of a call of Mult from which flux
\* lumping, the limiter or the mass solve read, the nodes are at
\* start_pos + t * vel_pos, M, K and the lumped mass are the ones assembled on
\* these nodes, and bdrInt, where the scheme uses it, is the one computed from
\* zero for every element and slot, the calls that refresh them being the
\* first calls of Mult; and the residual distribution step has recomputed the
\* subcell weights for the time of the call and has used these.
C14_RefreshBeforeUse ==
    (exec_mode = 1 /\ pc \in ReadPositions) =>
        /\ mesh_pos = MovedPos(start_pos, time, vel_pos)
        /\ M = MassAt(mesh, MovedPos(start_pos, time, vel_pos))
        /\ lumpedM = LumpedMassAt(mesh, MovedPos(start_pos, time, vel_pos))
        /\ K = AdvectionAt(mesh, exec_mode, velocity, vel_pos, MonoType, OptScheme)
        /\ SubSeq(calls, 1, 4)
             = <<"add", "Mbf.Assemble", "Kbf.Assemble", "ml.Assemble">>
        /\ NeedBdr(MonoType, OptScheme) =>
               /\ bdrInt = FluxTermsAt(mesh, exec_mode, velocity, vel_pos,
                                       ZeroBdrInt(mesh))
               /\ calls[5] = "ComputeFluxTerms"
        /\ (NeedSubcells(MonoType, OptScheme) /\ AfterLowOrderRD) =>
               /\ SubcellWeights = AssembleSubcellWeights(VolumeTerms, time)
               /\ (IF MonoType = ResDist THEN y ELSE yL)
                    = RatesWith(AssembleSubcellWeights(VolumeTerms, time))

\* a later evaluation in remap mode at another time than the one before, on
\* the mesh with a boundary, where the elements have changed their lengths:
\* the mass matrices, the flux terms and the subcell weights are not the ones
\* of the evaluation before, and the low order rates are not the ones that
\* the weights of the evaluation before give
C14_Witness ==
    /\ exec_mode = 1 /\ pc = "FCT_HighOrder" /\ MonoType = ResDist_FCT
    /\ NeedSubcells(MonoType, OptScheme)
    /\ Len(evals) >= 1
    /\ evals[Len(evals)][1] # time
    /\ M # MassAt(mesh, MovedPos(start_pos, evals[Len(evals)][1], vel_pos))
    /\ bdrInt # ZeroBdrInt(mesh)
    /\ SubcellWeights = AssembleSubcellWeights(VolumeTerms, time)
    /\ yL # RatesWith(AssembleSubcellWeights(VolumeTerms, evals[Len(evals)][1]))

\* C15: no step of an evaluation of Mult, in either mode, changes BdrDofs,
\* map_for_bounds, NbrDof or Sub2Ind, and in transport mode none changes
\* bdrInt, SubcellWeights or D: the values of the setup stay.
C15_SetupTablesKept ==
    [][/\ UNCHANGED <<BdrDofs, map_for_bounds, NbrDof, Sub2Ind>>
       /\ exec_mode = 0 => UNCHANGED <<bdrInt, SubcellWeights, D>>]_vars

\* the third evaluation in transport mode has returned, at a later time than
\* the setup and on another state than the evaluation before, with the
\* optimized residual distribution scheme and the limiter: the flux terms and
\* the subcell weights are the ones of the setup
C15_Witness ==
    /\ exec_mode = 0 /\ pc = "return" /\ MonoType = ResDist_FCT
    /\ NeedSubcells(MonoType, OptScheme)
    /\ Len(evals) = 2
    /\ time # Zero
    /\ evals[2][2] # x
    /\ bdrInt = FluxTermsAt(mesh, exec_mode, velocity, vel_pos, ZeroBdrInt(mesh))
    /\ bdrInt # ZeroBdrInt(mesh)
    /\ SubcellWeights = AssembleSubcellWeights(VolumeTerms, Zero)
    /\ VolumeTerms.slope # Zero
    /\ Sub2Ind = FillSubcell2CellDof(mesh)
    /\ NbrDof = FillNeighborDofs(mesh, BdrDofs)

\* C19: any two evaluations of a run at the same time on the same state have
\* returned the same rates, whatever was evaluated before and between them
\* (the configuration and dt are fixed in a run).
C19_SameInputSameResult ==
    \A i, j \in 1 .. Len(evals) :
        (evals[i][1] = evals[j][1] /\ evals[i][2] = evals[j][2])
            => evals[i][3] = evals[j][3]

\* three evaluations in remap mode with the optimized residual distribution
\* scheme and the limiter: the first and the third at the same time on the
\* same state, the second at another time on another state with other rates,
\* which has left other bounds, other subcell weights and another scratch
\* vector
C19_Witness ==
    /\ Len(evals) = 3
    /\ exec_mode = 1 /\ MonoType = ResDist_FCT
    /\ NeedSubcells(MonoType, OptScheme)
    /\ evals[1][1] = evals[3][1] /\ evals[1][2] = evals[3][2]
    /\ evals[2][1] # evals[1][1] /\ evals[2][2] # evals[1][2]
    /\ evals[2][3] # evals[1][3]
    /\ evals[3][3] = evals[1][3]
    /\ \E d \in Dofs(mesh) : evals[3][3][d] # Zero
    /\ AssembleSubcellWeights(VolumeTerms, evals[2][1])
         # AssembleSubcellWeights(VolumeTerms, evals[1][1])
    /\ MassAt(mesh, MovedPos(start_pos, evals[2][1], vel_pos))
         # MassAt(mesh, MovedPos(start_pos, evals[1][1], vel_pos))

-----------------------------------------------------------------------------
(* SpecNeumann: NeumannSolve(z, y), one step of its loop at a time, with the *)
(* mass matrix and the lumped mass of one segment of order 0, 1 or 2, and   *)
(* f = M x_known for drawn x_known.                                         *)

MaxLog2 == 7    \* the large x_known are 6 * 2^a for a in 0 .. MaxLog2

NeumannMeshes ==
    {GridMesh(1, <<1, 1, 1>>, <<FALSE, FALSE, FALSE>>, p) : p \in {0, 1, 2}}

\* the nodes of a segment of length h
NeumannPos(m) == {[u \in Nodes(m) |-> NMul(h, NInt(u[1] + u[2]))] :
                     h \in {One, NDiv(One, NInt(2))}}

\* x_known is uniform, or opposed at the two ends of the element
Uniform(m) == [d \in Dofs(m) |-> One]
Opposed(m) ==
    [d \in Dofs(m) |-> IF d % NdOf(m) = 0 THEN One
                       ELSE IF d % NdOf(m) = m.p THEN NInt(-1) ELSE Zero]

\* scales below the tolerance, of a few updates, and large
SmallScales == {NSci(6, -5), NSci(18, -4)}
RECURSIVE Pow2(_)
Pow2(k) == IF k = 0 THEN 1 ELSE 2 * Pow2(k - 1)

LargeScales == {NInt(6 * Pow2(a)) : a \in 0 .. MaxLog2}

\* on order 1 the opposed x_known contracts by 2/3 per update and its
\* iterates leave the range of the exact arithmetic after a few updates: it
\* is drawn at the small scales only
KnownVectors(m) ==
    {[d \in Dofs(m) |-> NMul(s, Uniform(m)[d])] :
        s \in SmallScales \cup LargeScales} \cup
    {[d \in Dofs(m) |-> NMul(s, Opposed(m)[d])] :
        s \in IF m.p = 1 THEN SmallScales ELSE SmallScales \cup LargeScales}

InitNeumann ==
    /\ pc = "NeumannSolve"
    /\ mesh \in NeumannMeshes
    /\ BdrDofs = Unused /\ map_for_bounds = Unused
    /\ NbrDof = Unused /\ Sub2Ind = Unused
    /\ BndUnused /\ DUUnused
    /\ MonoType = Unused /\ OptScheme = Unused /\ exec_mode = Unused
    /\ velocity = Unused /\ b = Unused /\ bdrInt = Unused
    /\ SubcellWeights = Unused /\ dt = Unused /\ time = Unused
    /\ start_pos = Unused /\ vel_pos = Unused /\ evals = Unused
    /\ VolumeTerms = Unused /\ subcell_mesh = Unused
    /\ mesh_pos \in NeumannPos(mesh)
    /\ M = MassAt(mesh, mesh_pos)
    /\ lumpedM = LumpedMassAt(mesh, mesh_pos)
    /\ x \in KnownVectors(mesh)
    /\ z = [d \in Dofs(mesh) |-> SpMult(M, x, d)]
    /\ y = Uniform(mesh)
    /\ yH = Unused /\ yL = Unused /\ fct = Unused /\ calls = Unused
    /\ rd = Unused /\ args = Unused /\ rc = Unused /\ pk = Unused
    /\ iter = Unset
    \* y.SetSize(n): not read before M.Mult writes it
    /\ resid = [d \in Dofs(mesh) |-> Zero]

neuFixed == <<topoVars, bndVars, duVars, evoVars, z, x, yH, yL, fct, calls, rd,
              mainVars>>

\* x = 0.; iter = 1
Neumann_Enter ==
    /\ pc = "NeumannSolve"
    /\ y' = [i \in DOMAIN z |-> Zero]
    /\ iter' = 1
    /\ pc' = "loop"
    /\ UNCHANGED <<neuFixed, resid>>

\* iter <= max_iter: M.Mult(x, y); y -= f; resid = y.Norml2()
Neumann_Residual ==
    /\ pc = "loop"
    /\ NeumannContinues(iter)
    /\ resid' = NeumannResidual(z, y)
    /\ pc' = "test"
    /\ UNCHANGED <<neuFixed, y, iter>>

\* if (resid <= abs_tol) { return; }
Neumann_Converged ==
    /\ pc = "test"
    /\ Norml2Leq(resid, AbsTol)
    /\ pc' = "return"
    /\ UNCHANGED <<neuFixed, y, iter, resid>>

\* x(i) -= y(i) / lumpedM(i); iter++
Neumann_Update ==
    /\ pc = "test"
    /\ ~ Norml2Leq(resid, AbsTol)
    /\ y' = NeumannUpdate(y, resid)
    /\ iter' = iter + 1
    /\ pc' = "loop"
    /\ UNCHANGED <<neuFixed, resid>>

\* iter <= max_iter fails: the function ends
Neumann_LoopEnds ==
    /\ pc = "loop"
    /\ ~ NeumannContinues(iter)
    /\ pc' = "return"
    /\ UNCHANGED <<neuFixed, y, iter, resid>>

NextNeumann ==
    \/ Neumann_Enter
    \/ Neumann_Residual
    \/ Neumann_Converged
    \/ Neumann_Update
    \/ Neumann_LoopEnds

SpecNeumann == InitNeumann /\ [][NextNeumann]_vars

\* the loop is sequential code: a step that can be taken is taken
SpecNeumannLive == SpecNeumann /\ WF_vars(NextNeumann)

-----------------------------------------------------------------------------
(* Claims about NeumannSolve.                                               *)

NeumannZero == [i \in DOMAIN z |-> Zero]

WithinTol(xv) == Norml2Leq(NeumannResidual(z, xv), AbsTol)

\* C16: NeumannSolve returns for every input; it starts from x = 0; its loop
\* counter never passes max_iter + 1, so that at most max_iter updates are
\* made; an iteration computes the residual M x - f of the x it has and, if
\* its norm is at most abs_tol, returns at once with that x, else updates x;
\* the function returns only so or by the end of the loop after max_iter
\* updates, then too with the x it has and through no other position; the
\* result is the one of the function as the evaluations of Mult use it.
C16_NeumannTerminates ==
    /\ <>(pc = "return")
    /\ [](pc \in {"NeumannSolve", "loop", "test", "return"})
    /\ [](pc = "loop" => iter \in 1 .. max_iter + 1)
    /\ [](pc = "test" => iter \in 1 .. max_iter)
    /\ [](pc = "return" => y = NeumannSolve(z))
    /\ [][pc = "NeumannSolve"
            => (pc' = "loop" /\ iter' = 1 /\ y' = NeumannZero)]_vars
    /\ [][(pc = "loop" /\ iter <= max_iter)
            => (pc' = "test" /\ resid' = NeumannResidual(z, y)
                /\ y' = y /\ iter' = iter)]_vars
    /\ [][(pc = "test" /\ Norml2Leq(resid, AbsTol))
            => (pc' = "return" /\ y' = y)]_vars
    /\ [][(pc = "test" /\ ~ Norml2Leq(resid, AbsTol))
            => (pc' = "loop" /\ iter' = iter + 1)]_vars
    /\ [][(pc = "loop" /\ iter > max_iter)
            => (pc' = "return" /\ y' = y)]_vars

\* the loop has ended after max_iter updates on the mass matrix of a segment
\* of order 2, with a residual above the tolerance, and has returned
C16_Witness ==
    /\ pc = "return"
    /\ iter = max_iter + 1
    /\ mesh.p = 2
    /\ ~ WithinTol(y)
    /\ y # NeumannZero
    /\ y = NeumannSolve(z)

\* one update turns the residual r into (I - M lumpedM^-1) r
ContractOnce(r) ==
    Vector([i \in DOMAIN r |->
               Once2(NSub, r[i],
                     SpMult(M, [j \in DOMAIN r |-> NDiv(r[j], lumpedM[j])], i))],
           Cardinality(DOMAIN r))

\* (I - M lumpedM^-1)^k f, the residual after k updates up to the sign
RECURSIVE Contracted(_, _)
Contracted(f, k) == IF k = 0 THEN f ELSE ContractOnce(Contracted(f, k - 1))

\* M is diagonal and equal to lumpedM
IsLumped ==
    \A q \in DOMAIN M : M[q] = IF q[1] = q[2] THEN lumpedM[q[1]] ELSE Zero

\* C17 as stated: on the mass matrices of the program, NeumannSolve applied
\* to f = M x_known returns an x whose residual is within abs_tol, and
\* exactly x_known after one update when M is diagonal and equal to lumpedM.
C17_RecoversWithinCap ==
    pc = "return" =>
        /\ WithinTol(y)
        /\ IsLumped => (y = x /\ iter = 2)

\* C17, amended: NeumannSolve applied to f = M x_known returns an x whose
\* residual is within abs_tol, in an iteration of the loop, whenever
\* (I - M lumpedM^-1)^k f has a norm of at most abs_tol for some k below
\* max_iter, and returns at the end of the loop when there is no such k; when
\* the norm of f itself is at most abs_tol it returns x = 0 without an
\* update; when M is diagonal and equal to lumpedM and the norm of f is above
\* abs_tol it returns exactly x_known after one update.
C17_RecoversWhenContracted ==
    pc = "return" =>
        /\ (\E k \in 0 .. max_iter - 1 : Norml2Leq(Contracted(z, k), AbsTol))
              => (WithinTol(y) /\ iter <= max_iter)
        /\ (\A k \in 0 .. max_iter - 1 : ~ Norml2Leq(Contracted(z, k), AbsTol))
              => iter = max_iter + 1
        /\ Norml2Leq(z, AbsTol) => (y = NeumannZero /\ iter = 1)
        /\ (IsLumped /\ ~ Norml2Leq(z, AbsTol)) => (y = x /\ iter = 2)

\* on the mass matrix of a segment of order 1, which is not diagonal, a
\* x_known that is not uniform has been recovered within the tolerance, not
\* exactly, after two updates or more
C17_Witness ==
    /\ pc = "return"
    /\ mesh.p = 1 /\ ~ IsLumped
    /\ x \notin {[d \in Dofs(mesh) |-> NMul(s, Uniform(mesh)[d])] : s \in SmallScales}
    /\ z = [d \in Dofs(mesh) |-> SpMult(M, x, d)]
    /\ iter \in 3 .. max_iter
    /\ WithinTol(y)
    /\ y # x /\ y # NeumannZero
    /\ \E k \in 0 .. max_iter - 1 : Norml2Leq(Contracted(z, k), AbsTol)

-----------------------------------------------------------------------------
(* SpecRD64: the element loop of the residual distribution branch in the    *)
(* arithmetic of double, on one element whose state is uniform or differs   *)
(* in one dof.  A double in {0} \cup [1, 32) is <<a, b, c>>, its value      *)
(* a + b / 2^26 + c / 2^52, with 0 <= b, c < 2^26.                          *)

Limb == 8192 * 8192        \* 2^26
MaxTenths == 9

\* the limbs after the carries
Carry(a, bb, c) ==
    <<a + (bb + c \div Limb) \div Limb, (bb + c \div Limb) % Limb, c % Limb>>

\* the spacing of the doubles of the binade of a, in units of 2^-52
Ulp(a) == IF a >= 16 THEN 16 ELSE IF a >= 8 THEN 8 ELSE IF a >= 4 THEN 4
          ELSE IF a >= 2 THEN 2 ELSE 1

\* round to nearest, ties to even: the double result of an operation whose
\* exact result is v
Round64(v) ==
    LET q    == Ulp(v[1])
        r    == v[3] % q
        down == v[3] - r
    IN  IF 2 * r < q \/ (2 * r = q /\ (down \div q) % 2 = 0)
        THEN <<v[1], v[2], down>>
        ELSE Carry(v[1], v[2], down + q)

\* the double nearest to 1 + j/10: the value of the literal 1.j
DoubleOf(j) ==
    Carry(1, (j * Limb) \div 10, ((((j * Limb) % 10) * Limb) + 5) \div 10)

Zero64 == <<0, 0, 0>>
Inf64  == <<Limb, 0, 0>>      \* numeric_limits<double>::infinity()
MInf64 == <<-Limb, 0, 0>>

Leq64(u, v) ==
    \/ u[1] < v[1]
    \/ u[1] = v[1] /\ u[2] < v[2]
    \/ u[1] = v[1] /\ u[2] = v[2] /\ u[3] <= v[3]
Max64(u, v) == IF Leq64(u, v) THEN v ELSE u
Min64(u, v) == IF Leq64(u, v) THEN u ELSE v

\* u + v in double
Add64(u, v) == Round64(Carry(u[1] + v[1], u[2] + v[2], u[3] + v[3]))

\* nd * v in double
Mul64(nd, v) == Round64(Carry(nd * v[1], nd * v[2], nd * v[3]))

\* u - v in double, in units of 2^-52: exact where u and v are within 2^-25
\* of each other (the difference of two doubles that close is a double), and
\* cut off at 2^-26 with the sign of u - v otherwise
Sub64(u, v) ==
    LET hi == (u[1] - v[1]) * Limb + (u[2] - v[2])
    IN  IF hi > 1 THEN Limb ELSE IF hi < -1 THEN - Limb
        ELSE hi * Limb + (u[3] - v[3])

\* w +/- eps in double, for w a multiple of 2^-52 below 2^-25 in size: the
\* pair of w in units of 2^-52 and the sign of eps.  eps = 1e-15 lies
\* between 4 and 5 units and is not next to a multiple of 2^-52, and rounding
\* keeps the order, so the result is compared through w.
PlusEps(w)  == [units |-> w, eps |-> 1]
MinusEps(w) == [units |-> w, eps |-> -1]

AtLeastEps(w)     == w.eps = 1 /\ w.units >= 0
AtMostMinusEps(w) == w.eps = -1 /\ w.units <= 0
IsNegative(w) == IF w.eps = 1 THEN w.units <= -5 ELSE w.units <= 4
IsPositive(w) == IF w.eps = 1 THEN w.units >= -4 ELSE w.units >= 5

\* one element of each dimension and order
RDMeshes ==
    {GridMesh(dp[1], <<1, 1, 1>>, <<FALSE, FALSE, FALSE>>, dp[2]) :
        dp \in {<<1, 1>>, <<1, 2>>, <<2, 1>>, <<2, 2>>, <<3, 1>>}}

\* the state on the element: 1.i in the first dof, 1.j in the others
RDStates(m) ==
    {[d \in Dofs(m) |-> IF d = 0 THEN DoubleOf(ij[1]) ELSE DoubleOf(ij[2])] :
        ij \in (0 .. MaxTenths) \X (0 .. MaxTenths)}

InitRD64 ==
    /\ pc = "RDElem"
    /\ mesh \in RDMeshes
    /\ BdrDofs = Unused /\ map_for_bounds = Unused
    /\ NbrDof = Unused /\ Sub2Ind = Unused
    /\ xi_min = Unused /\ xi_max = Unused
    /\ xe_min = [k \in Elems(mesh) |-> Zero64]
    /\ xe_max = [k \in Elems(mesh) |-> Zero64]
    /\ DUUnused /\ EvoUnused
    /\ x \in RDStates(mesh)
    /\ z = Unused /\ y = Unused /\ yH = Unused /\ yL = Unused
    /\ fct = Unused /\ calls = Unused /\ iter = Unused /\ resid = Unused
    /\ rd = Unset
    /\ args = Unused /\ rc = Unused /\ pk = Unused

rdFixed == <<topoVars, xi_min, xi_max, duVars, evoVars, z, x, y, yH, yL, fct,
             calls, iter, resid, mainVars>>

\* dofs.xe_min(k) = infinity; dofs.xe_max(k) = -dofs.xe_min(k); xSum = 0.
RD_ElemStart ==
    /\ pc = "RDElem"
    /\ xe_min' = [xe_min EXCEPT ![0] = Inf64]
    /\ xe_max' = [xe_max EXCEPT ![0] = MInf64]
    /\ rd' = [j |-> 0, xSum |-> Zero64]
    /\ pc' = "RDSum"
    /\ UNCHANGED rdFixed

\* one pass of for (j = 0; j < nd; j++)
RD_Accumulate ==
    /\ pc = "RDSum"
    /\ rd.j < NdOf(mesh)
    /\ xe_max' = [xe_max EXCEPT ![0] = Max64(xe_max[0], x[rd.j])]
    /\ xe_min' = [xe_min EXCEPT ![0] = Min64(xe_min[0], x[rd.j])]
    /\ rd' = [j |-> rd.j + 1, xSum |-> Add64(rd.xSum, x[rd.j])]
    /\ UNCHANGED <<pc, rdFixed>>

\* sumWeightsP = nd*dofs.xe_max(k) - xSum + eps; sumWeightsN likewise
RD_SumWeights ==
    /\ pc = "RDSum"
    /\ rd.j = NdOf(mesh)
    /\ rd' = [j |-> rd.j, xSum |-> rd.xSum,
              sumWeightsP |->
                  PlusEps(Sub64(Mul64(NdOf(mesh), xe_max[0]), rd.xSum)),
              sumWeightsN |->
                  MinusEps(Sub64(Mul64(NdOf(mesh), xe_min[0]), rd.xSum))]
    /\ pc' = "RDWeights"
    /\ UNCHANGED <<xe_min, xe_max, rdFixed>>

NextRD64 == RD_ElemStart \/ RD_Accumulate \/ RD_SumWeights
SpecRD64 == InitRD64 /\ [][NextRD64]_vars

\* C18: in the residual distribution branch sumWeightsP is at least eps and
\* sumWeightsN is at most -eps for every state x, uniform states included
C18_SumWeightsBeyondEps ==
    pc = "RDWeights" =>
        /\ AtLeastEps(rd.sumWeightsP)
        /\ AtMostMinusEps(rd.sumWeightsN)

-----------------------------------------------------------------------------
(* SpecMain: main from the parsed options to the first Mult.  MonoType and  *)
(* OptScheme are the locals of main, which become lom.MonoType and          *)
(* lom.OptScheme; args keeps the options as they were parsed.               *)

MaxOrder == 3
MaxMono  == 6
MaxOde   == 7

ProblemNums == {4, 14, 20}

\* (MonoType < 0) || (MonoType > 4); (int)MonoType != MonoType is never true
\* mutant: only the lower end is checked
Unsupported_NoUpper(mt) == mt < 0
Unsupported(mt) == mt < 0 \/ mt > 4

\* case 1: .. case 6: of switch (ode_solver_type)
KnownOdeSolver(s) == s \in {1, 2, 3, 4, 6}

InitMain ==
    /\ pc = "main"
    /\ TopoUnused /\ BndUnused /\ DUUnused
    /\ args \in [Good : BOOLEAN, problem_num : ProblemNums,
                 ode_solver_type : 1 .. MaxOde, order : 0 .. MaxOrder,
                 MonoType : -1 .. MaxMono, OptScheme : BOOLEAN]
    /\ MonoType = args.MonoType
    /\ OptScheme = args.OptScheme
    /\ exec_mode = Unset
    /\ velocity = Unused /\ M = Unused /\ lumpedM = Unused
    /\ b = Unused /\ bdrInt = Unused /\ SubcellWeights = Unused
    /\ dt = Unused /\ time = Unused /\ start_pos = Unused
    /\ vel_pos = Unused /\ mesh_pos = Unused /\ evals = Unused
    /\ VolumeTerms = Unset /\ subcell_mesh = Unset
    /\ z = Unused /\ x = Unused /\ y = Unused /\ yH = Unused /\ yL = Unused
    /\ fct = Unused /\ calls = Unused /\ iter = Unused /\ resid = Unused
    /\ rd = Unused
    /\ rc = Unset /\ pk = Unset

mainFixed == <<topoVars, bndVars, duVars, velocity, b, dt, time, start_pos,
               vel_pos, evals, asmVars, SubcellWeights, vecVars, args>>

\* if (!args.Good()) { args.PrintUsage(cout); return 1; }
Main_Parse ==
    /\ pc = "main"
    /\ IF args.Good THEN pc' = "exec_mode" /\ rc' = rc
       ELSE pc' = "return" /\ rc' = 1
    /\ UNCHANGED <<mainFixed, pk, MonoType, OptScheme, exec_mode, VolumeTerms,
                   subcell_mesh>>

\* exec mode is derived from problem number convention
Main_ExecMode ==
    /\ pc = "exec_mode"
    /\ IF args.problem_num < 10 THEN exec_mode' = 0 /\ pc' = "ode_solver"
       ELSE IF args.problem_num < 20 THEN exec_mode' = 1 /\ pc' = "ode_solver"
       ELSE exec_mode' = exec_mode /\ pc' = "abort"
    /\ UNCHANGED <<mainFixed, pk, MonoType, OptScheme, VolumeTerms, subcell_mesh,
                   rc>>

\* switch (ode_solver_type); default: delete mesh; return 3;
Main_OdeSolver ==
    /\ pc = "ode_solver"
    /\ IF KnownOdeSolver(args.ode_solver_type)
       THEN pc' = "validate" /\ rc' = rc
       ELSE pc' = "return" /\ rc' = 3
    /\ UNCHANGED <<mainFixed, pk, MonoType, OptScheme, exec_mode, VolumeTerms,
                   subcell_mesh>>

\* MonoType after the check for meaningful combinations of parameters
CheckedMonoType(mt, order) == IF mt # None /\ order = 0 THEN None ELSE mt

\* OptScheme after the check
CheckedOptScheme(mt, opt, order) ==
    IF mt = None \/ order = 0 THEN FALSE
    ELSE IF mt > 2 /\ order = 1 /\ opt THEN FALSE
    ELSE opt

\* Check for meaningful combinations of parameters; if (fail) return 5
Main_Validate ==
    /\ pc = "validate"
    /\ MonoType' = CheckedMonoType(MonoType, args.order)
    /\ OptScheme' = CheckedOptScheme(MonoType, OptScheme, args.order)
    /\ IF MonoType # None /\ Unsupported(MonoType)
       THEN pc' = "return" /\ rc' = 5
       ELSE pc' = "DofInfo" /\ rc' = rc
    /\ UNCHANGED <<mainFixed, pk, exec_mode, VolumeTerms, subcell_mesh>>

\* DofInfo dofs(&fes); lom.MonoType = MonoType; lom.OptScheme = OptScheme
Main_DofInfo ==
    /\ pc = "DofInfo"
    /\ pc' = "subcells"
    /\ UNCHANGED <<mainFixed, pk, MonoType, OptScheme, exec_mode, VolumeTerms,
                   subcell_mesh, rc>>

\* if (NeedSubcells) { lom.VolumeTerms = ..; if (exec_mode == 0)
\* lom.subcell_mesh = GetSubcellMesh(mesh, order); }: p is recorded
Main_Subcells ==
    /\ pc = "subcells"
    /\ VolumeTerms' = IF NeedSubcells(MonoType, OptScheme)
                      THEN "MixedConvectionIntegrator" ELSE VolumeTerms
    /\ subcell_mesh' = IF NeedSubcells(MonoType, OptScheme) /\ exec_mode = 0
                       THEN [p |-> args.order] ELSE subcell_mesh
    /\ pc' = "Assembly"
    /\ UNCHANGED <<mainFixed, pk, MonoType, OptScheme, exec_mode, rc>>

\* Assembly asmbl(dofs, lom); .. adv = new FE_Evolution(..); ode_solver->Init
Main_Assembly ==
    /\ pc = "Assembly"
    /\ pc' = "Step"
    /\ UNCHANGED <<mainFixed, pk, MonoType, OptScheme, exec_mode, VolumeTerms,
                   subcell_mesh, rc>>

\* the first ode_solver->Step(u, t, dt_real), which evaluates adv->Mult
Main_Step ==
    /\ pc = "Step"
    /\ pc' = "Mult"
    /\ UNCHANGED <<mainFixed, pk, MonoType, OptScheme, exec_mode, VolumeTerms,
                   subcell_mesh, rc>>

NextMain ==
    \/ Main_Parse \/ Main_ExecMode \/ Main_OdeSolver \/ Main_Validate
    \/ Main_DofInfo \/ Main_Subcells \/ Main_Assembly \/ Main_Step
SpecMain == InitMain /\ [][NextMain]_vars

\* the run is past the check of the parameters
SetUp == pc \in {"DofInfo", "subcells", "Assembly", "Step", "Mult"}

\* GetSubcellMesh has been called: the run is past if (NeedSubcells), which
\* held, in exec_mode 0
SubcellMeshBuilt ==
    /\ pc \in {"Assembly", "Step", "Mult"}
    /\ NeedSubcells(MonoType, OptScheme) /\ exec_mode = 0

\* the configuration the evaluation is entered with is a supported one
Validated ==
    /\ MonoType \in 0 .. 4
    /\ (MonoType = None => ~ OptScheme)
    /\ (args.order = 0 => MonoType = None)
    /\ (NeedSubcells(MonoType, OptScheme) => args.order >= 2)
    /\ (SubcellMeshBuilt => subcell_mesh.p >= 2)

\* the run has ended in a check that precedes the one of MonoType
EndedEarlier ==
    \/ pc = "return" /\ rc = 1 /\ ~ args.Good
    \/ pc = "abort" /\ args.Good /\ args.problem_num >= 20
    \/ /\ pc = "return" /\ rc = 3
       /\ args.Good /\ args.problem_num < 20
       /\ ~ KnownOdeSolver(args.ode_solver_type)

\* C20 as stated: a MonoType outside 0..4 ends the run with exit code 5
\* before any setup, and whatever reaches Mult is validated
C20_UnsupportedExitsWith5 ==
    /\ args.MonoType \notin 0 .. 4 =>
           /\ ~ SetUp
           /\ pc \in {"return", "abort"} => (pc = "return" /\ rc = 5)
    /\ SetUp => Validated

\* C20: a MonoType outside 0..4 ends the run before any DofInfo or Assembly
\* setup and before any evaluation, with exit code 5 unless an earlier check
\* of main has ended it (exit code 1 for unusable options, the abort for a
\* problem number of 20 or more, exit code 3 for an unknown ODE solver), and
\* every configuration that reaches the first Mult has MonoType in 0..4,
\* OptScheme false with MonoType None, MonoType None with order 0, and order
\* at least 2 with subcells, so that GetSubcellMesh is never called with p = 1
C20_ValidatedBeforeMult ==
    /\ args.MonoType \notin 0 .. 4 =>
           /\ ~ SetUp
           /\ pc \in {"return", "abort"} =>
                  \/ pc = "return" /\ rc = 5
                  \/ EndedEarlier
           /\ (pc = "return" /\ rc = 5) => ~ EndedEarlier
    /\ SetUp => (Validated /\ args.MonoType \in 0 .. 4)
    /\ (pc = "return" /\ rc = 5) => args.MonoType \notin 0 .. 4

C20_Witness ==
    /\ pc = "return" /\ rc = 5
    /\ args.MonoType = 5 /\ args.order = 0 /\ args.OptScheme
    /\ MonoType = None /\ ~ OptScheme

-----------------------------------------------------------------------------
(* The entries of D, one by one.                                            *)

\* max(0, -kij, -kji)
Lift(A, q) ==
    CHOOSE m \in {Zero, NNeg(A[q]), NNeg(A[<<q[2], q[1]>>])} :
        \A c \in {Zero, NNeg(A[q]), NNeg(A[<<q[2], q[1]>>])} : NLeq(c, m)

OffDiagonalOfRow(A, i) == {q \in OffDiagonal(A) : q[1] = i}

LiftedOffDiagonal ==
    \A q \in OffDiagonal(D) : D[q] = NAdd(K[q], Lift(K, q))

\* C21 as stated: D_ij = K_ij + max(0, -K_ij, -K_ji) off the diagonal and
\* D_ii = K_ii minus the sum of the off-diagonal D_ij of the row
C21_DiagonalLessEntriesOfD ==
    pc = "upwinded" =>
        /\ LiftedOffDiagonal
        /\ \A i \in 0 .. MatSize(D) - 1 :
               D[<<i, i>>] = NSub(K[<<i, i>>], NSum(D, OffDiagonalOfRow(D, i)))

\* C21: for every K of structurally symmetric sparsity D has the sparsity of
\* K, D_ij = K_ij + max(0, -K_ij, -K_ji) in every stored off-diagonal entry,
\* and D_ii = K_ii minus the sum over j # i of max(0, -K_ij, -K_ji), the
\* amounts added in the row
C21_DiagonalLessLifts ==
    pc = "upwinded" =>
        /\ DOMAIN D = DOMAIN K
        /\ LiftedOffDiagonal
        /\ \A i \in 0 .. MatSize(D) - 1 :
               D[<<i, i>>] =
                   NSub(K[<<i, i>>],
                        NSum([q \in OffDiagonal(K) |-> Lift(K, q)],
                             OffDiagonalOfRow(K, i)))

\* a row with a lifted entry and an off-diagonal entry of K that is not zero
C21_Witness ==
    /\ pc = "upwinded"
    /\ \E q \in OffDiagonal(D) :
           /\ NLt(Zero, K[q]) /\ NLt(K[<<q[2], q[1]>>], Zero)
           /\ D[q] = NSub(K[q], K[<<q[2], q[1]>>])
           /\ D[<<q[2], q[1]>>] = Zero
           /\ NLt(D[<<q[1], q[1]>>], K[<<q[1], q[1]>>])
           /\ NSum(K, OffDiagonalOfRow(K, q[1])) # Zero

-----------------------------------------------------------------------------
(* SpecLump: one call of LinearFluxLumping(k, nd, BdrID, x, y, alpha) on a  *)
(* DofInfo built on a mesh of two or three elements, with drawn bdrInt, x   *)
(* and alpha; y starts at one in every dof.  pc holds the arguments.        *)

MaxSlope == 3

\* segments, quads and hexes, with and without a periodic axis
LumpMeshes ==
    {GridMesh(1, <<2, 1, 1>>, <<per, FALSE, FALSE>>, p) :
        per \in BOOLEAN, p \in {1, 2}}
    \cup {GridMesh(2, <<2, 1, 1>>, <<FALSE, FALSE, FALSE>>, p) : p \in {1, 2}}
    \cup {GridMesh(2, <<3, 1, 1>>, <<TRUE, FALSE, FALSE>>, 1),
          GridMesh(3, <<1, 2, 1>>, <<FALSE, FALSE, FALSE>>, 1)}

\* x: small integers that differ from dof to dof
LumpStates(m) ==
    {[d \in Dofs(m) |-> NInt((a * d + c) % 7)] : a \in 0 .. MaxSlope, c \in 0 .. 1}

\* alpha, per local dof: 0, 1, and values between that differ between dofs
LumpAlphas(m) ==
    {[loc \in 0 .. NdOf(m) - 1 |-> Zero], [loc \in 0 .. NdOf(m) - 1 |-> One],
     [loc \in 0 .. NdOf(m) - 1 |-> NDiv(One, NInt(2))],
     [loc \in 0 .. NdOf(m) - 1 |-> NDiv(NInt(loc % 3), NInt(2))],
     [loc \in 0 .. NdOf(m) - 1 |-> NDiv(NInt(1 + (loc % 3)), NInt(4))]}

\* asmbl.bdrInt: entries -1, 0, 1 that differ with the slot and the pair
LumpBdrInts(m) ==
    {[u \in Elems(m) \X Slots(m) \X (0 .. NumDofsOf(m) * NumDofsOf(m) - 1) |->
         NInt(((bs[1] * u[3] + u[2] + bs[2]) % 3) - 1)] :
        bs \in (0 .. 2) \X (0 .. 2)}

LumpOnes(m) == [d \in Dofs(m) |-> One]

InitLump ==
    /\ mesh \in LumpMeshes
    /\ BdrDofs = ExtractBdrDofs(mesh.dim, mesh.p)
    /\ map_for_bounds = Unused
    /\ NbrDof = FillNeighborDofs(mesh, BdrDofs)
    /\ Sub2Ind = Unused
    /\ BndUnused /\ DUUnused
    /\ MonoType = Unused /\ OptScheme = Unused /\ exec_mode = Unused
    /\ velocity = Unused /\ M = Unused /\ lumpedM = Unused
    /\ b = Unused /\ SubcellWeights = Unused
    /\ dt = Unused /\ time = Unused /\ start_pos = Unused
    /\ vel_pos = Unused /\ mesh_pos = Unused /\ evals = Unused
    /\ VolumeTerms = Unused /\ subcell_mesh = Unused
    /\ bdrInt \in LumpBdrInts(mesh)
    /\ x \in LumpStates(mesh)
    /\ y = LumpOnes(mesh)
    /\ pc \in [at : {"LinearFluxLumping"}, k : Elems(mesh), BdrID : Slots(mesh),
               alpha : LumpAlphas(mesh)]
    /\ z = Unused /\ yH = Unused /\ yL = Unused /\ fct = Unused
    /\ calls = Unused /\ iter = Unused /\ resid = Unused /\ rd = Unused
    /\ args = Unused /\ rc = Unused /\ pk = Unused

\* the dofs of the slot BdrID of element k
SlotDofs(k, BdrID) ==
    {k * NdOf(mesh) + BdrDofs[<<i, BdrID>>] : i \in 0 .. NumDofsOf(mesh) - 1}

\* the position on the slot of the dof d of SlotDofs(k, BdrID)
SlotPosition(k, BdrID, d) ==
    CHOOSE i \in 0 .. NumDofsOf(mesh) - 1 :
        d = k * NdOf(mesh) + BdrDofs[<<i, BdrID>>]

\* the call: both loops of LinearFluxLumping
Call_LinearFluxLumping ==
    /\ pc.at = "LinearFluxLumping"
    /\ y' = [d \in Dofs(mesh) |->
               IF d \in SlotDofs(pc.k, pc.BdrID)
               THEN NAdd(y[d], LinearFluxLumping(pc.k, pc.BdrID, x, pc.alpha,
                                                 SlotPosition(pc.k, pc.BdrID, d)))
               ELSE y[d]]
    /\ pc' = [pc EXCEPT !.at = "return"]
    /\ UNCHANGED <<topoVars, bndVars, duVars, evoVars, z, x, yH, yL, fct, calls,
                   iter, resid, rd, mainVars>>

NextLump == Call_LinearFluxLumping
SpecLump == InitLump /\ [][NextLump]_vars

\* x at NbrDof(k, slot, j), and 0 on an exterior slot
NeighborValue(k, slot, j) ==
    IF NbrDof[<<k, slot, j>>] < 0 THEN Zero ELSE x[NbrDof[<<k, slot, j>>]]

\* xNeighbor(j) - x(dof_j)
Jump(k, slot, j) ==
    NSub(NeighborValue(k, slot, j), x[k * NdOf(mesh) + BdrDofs[<<j, slot>>]])

\* sum over j of bdrInt[k][slot][i,j] times w(j)
Weighted(k, slot, i, w(_)) ==
    NSum([j \in 0 .. NumDofsOf(mesh) - 1 |->
             NMul(bdrInt[<<k, slot, i * NumDofsOf(mesh) + j>>], w(j))],
         0 .. NumDofsOf(mesh) - 1)

Blend(k, slot, al, i, j) ==
    NAdd(Jump(k, slot, i),
         NMul(NSub(Jump(k, slot, j), Jump(k, slot, i)),
              NMul(al[BdrDofs[<<i, slot>>]], al[BdrDofs[<<j, slot>>]])))

\* C22: LinearFluxLumping adds to y at each boundary dof i of the slot the
\* sum over j of bdrInt[i,j] (xDiff(i) + (xDiff(j) - xDiff(i)) alpha_i alpha_j),
\* xDiff being neighbour value (0 on an exterior slot) minus own value; that
\* is the sum of bdrInt[i,j] xDiff(i) for alpha = 0 and of bdrInt[i,j] xDiff(j)
\* for alpha = 1; y is unchanged at every other dof
C22_LumpedFluxAdded ==
    pc.at = "return" =>
        /\ \A i \in 0 .. NumDofsOf(mesh) - 1 :
             LET d == pc.k * NdOf(mesh) + BdrDofs[<<i, pc.BdrID>>]
                 blend(j) == Blend(pc.k, pc.BdrID, pc.alpha, i, j)
                 own(j) == Jump(pc.k, pc.BdrID, i)
                 other(j) == Jump(pc.k, pc.BdrID, j)
             IN  /\ y[d] = NAdd(One, Weighted(pc.k, pc.BdrID, i, blend))
                 /\ (\A loc \in DOMAIN pc.alpha : pc.alpha[loc] = Zero) =>
                        y[d] = NAdd(One, Weighted(pc.k, pc.BdrID, i, own))
                 /\ (\A loc \in DOMAIN pc.alpha : pc.alpha[loc] = One) =>
                        y[d] = NAdd(One, Weighted(pc.k, pc.BdrID, i, other))
        /\ \A d \in Dofs(mesh) \ SlotDofs(pc.k, pc.BdrID) : y[d] = One

\* a slot between two elements with two dofs whose alpha differ and whose
\* jumps differ, and a dof of the slot that got a new value
C22_Witness ==
    /\ pc.at = "return"
    /\ mesh.dim = 2
    /\ \E i, j \in 0 .. NumDofsOf(mesh) - 1 :
           /\ NbrDof[<<pc.k, pc.BdrID, i>>] >= 0
           /\ Jump(pc.k, pc.BdrID, i) # Jump(pc.k, pc.BdrID, j)
           /\ pc.alpha[BdrDofs[<<i, pc.BdrID>>]] # pc.alpha[BdrDofs[<<j, pc.BdrID>>]]
           /\ pc.alpha[BdrDofs[<<i, pc.BdrID>>]] # Zero
           /\ pc.alpha[BdrDofs[<<j, pc.BdrID>>]] # Zero
           /\ bdrInt[<<pc.k, pc.BdrID, i * NumDofsOf(mesh) + j>>] # Zero
           /\ y[pc.k * NdOf(mesh) + BdrDofs[<<i, pc.BdrID>>]] # One

-----------------------------------------------------------------------------
(* The element bounds ComputeFCTSolution reads, in the evaluations of       *)
(* SpecEval.                                                                *)

\* v is the least (greatest) value of x over the dofs of element k
LeastOver(v, k) ==
    /\ \E d \in ElemDofs(k) : v = x[d]
    /\ \A d \in ElemDofs(k) : NLeq(v, x[d])
GreatestOver(v, k) ==
    /\ \E d \in ElemDofs(k) : v = x[d]
    /\ \A d \in ElemDofs(k) : NLeq(x[d], v)

\* C23: in every Mult of an FCT mode, when ComputeFCTSolution queries the
\* bounds, xe_min(k) and xe_max(k) are the minimum and the maximum of the
\* current x over the dofs of k, recorded by ComputeLowOrderSolution in the
\* same Mult, in the discrete upwinding and the residual distribution branch;
\* so xi_min(d) <= x(d) <= xi_max(d) for every dof
C23_ElementBoundsOfCurrentState ==
    /\ pc \in {"FCT_HighOrder", "FCT_Clip"} =>
           \A k \in Elems(mesh) :
               LeastOver(xe_min[k], k) /\ GreatestOver(xe_max[k], k)
    /\ (pc = "return" /\ MultBranch(MonoType) = "fct") =>
           /\ Len(calls) >= 3
           /\ SubSeq(calls, Len(calls) - 2, Len(calls)) =
                  <<"ComputeLowOrderSolution", "ComputeHighOrderSolution",
                    "ComputeFCTSolution">>
           /\ \A k \in Elems(mesh) :
                  LeastOver(xe_min[k], k) /\ GreatestOver(xe_max[k], k)
           /\ \A d \in Dofs(mesh) : InBounds(x[d], d)

\* a later evaluation in an FCT mode, on a state whose minimum over an
\* element is not the one of the evaluation before
C23_Witness ==
    /\ pc = "return" /\ MultBranch(MonoType) = "fct"
    /\ Len(evals) >= 1
    /\ \E k \in Elems(mesh) :
           /\ ~ LeastOver(ElemMin(evals[Len(evals)][2], k), k)
           /\ NLt(xe_min[k], xe_max[k])
    /\ \E d \in Dofs(mesh) : NLt(xi_min[d], x[d])

-----------------------------------------------------------------------------
(* The rescaling of the fluxes in ComputeFCTSolution, in SpecFCT.           *)

\* fClipped(j) of element k as the first loop leaves it
FluxBefore(k, j) ==
    NMul(NDiv(lumpedM[k * NdOf(mesh) + j], dt),
         NSub(fct[k].uClipped[j], Euler(yL, k * NdOf(mesh) + j)))

\* the first (second) if of the second loop applies to the dof j of k
ScaledDown(k, j) ==
    /\ NLt(Eps, NAdd(fct[k].sumPos, fct[k].sumNeg))
    /\ NLt(Eps, FluxBefore(k, j))
ScaledUp(k, j) ==
    /\ NLt(NAdd(fct[k].sumPos, fct[k].sumNeg), NNeg(Eps))
    /\ NLt(FluxBefore(k, j), NNeg(Eps))

InUnitInterval(f) == NLeq(Zero, f) /\ NLt(f, One)

\* C24: whenever a flux is rescaled the divisor is not zero and the factor
\* is in [0, 1): sumPos + sumNeg > eps gives sumPos > 0 and -sumNeg/sumPos
\* in [0, 1), sumPos + sumNeg < -eps gives sumNeg < 0 and -sumPos/sumNeg in
\* [0, 1); at most one of the two rescalings applies within an element; no
\* flux changes its sign or grows in magnitude
C24_RescalingShrinks ==
    pc = "done" =>
        \A k \in Elems(mesh) :
            /\ NLt(Eps, NAdd(fct[k].sumPos, fct[k].sumNeg)) =>
                   /\ NLt(Zero, fct[k].sumPos)
                   /\ InUnitInterval(NDiv(NNeg(fct[k].sumNeg), fct[k].sumPos))
            /\ NLt(NAdd(fct[k].sumPos, fct[k].sumNeg), NNeg(Eps)) =>
                   /\ NLt(fct[k].sumNeg, Zero)
                   /\ InUnitInterval(NDiv(NNeg(fct[k].sumPos), fct[k].sumNeg))
            /\ \A i, j \in 0 .. NdOf(mesh) - 1 : ~ (ScaledDown(k, i) /\ ScaledUp(k, j))
            /\ \A j \in 0 .. NdOf(mesh) - 1 :
                   /\ ScaledDown(k, j) =>
                          fct[k].fClipped[j] =
                              NMul(FluxBefore(k, j),
                                   NDiv(NNeg(fct[k].sumNeg), fct[k].sumPos))
                   /\ ScaledUp(k, j) =>
                          fct[k].fClipped[j] =
                              NMul(FluxBefore(k, j),
                                   NDiv(NNeg(fct[k].sumPos), fct[k].sumNeg))
                   /\ ~ (ScaledDown(k, j) \/ ScaledUp(k, j)) =>
                          fct[k].fClipped[j] = FluxBefore(k, j)
                   /\ NLeq(Zero, NMul(fct[k].fClipped[j], FluxBefore(k, j)))
                   /\ NLeq(NAbs(fct[k].fClipped[j]), NAbs(FluxBefore(k, j)))

\* negative fluxes prevail in an element: its negative flux was scaled by a
\* factor strictly between 0 and 1, its positive flux was kept
C24_Witness ==
    /\ pc = "done"
    /\ \E k \in Elems(mesh) : \E i, j \in 0 .. NdOf(mesh) - 1 :
           /\ ScaledUp(k, j)
           /\ NLt(Zero, fct[k].sumPos)
           /\ NLt(FluxBefore(k, j), fct[k].fClipped[j])
           /\ NLt(fct[k].fClipped[j], Zero)
           /\ NLt(Zero, FluxBefore(k, i))
           /\ fct[k].fClipped[i] = FluxBefore(k, i)

\* u lies between a and c, the ends included
Between(u, a, c) ==
    \/ NLeq(a, u) /\ NLeq(u, c)
    \/ NLeq(c, u) /\ NLeq(u, a)

\* C25: for every dof the forward Euler value x + dt y of the FCT result
\* lies between the low order value x + dt yL and uClipped, the ends
\* included; so it is within [xi_min, xi_max] for every dof whose low order
\* value is
C25_BetweenLowOrderAndClipped ==
    pc = "done" =>
        \A k \in Elems(mesh) : \A j \in 0 .. NdOf(mesh) - 1 :
            /\ Between(Euler(y, k * NdOf(mesh) + j),
                       Euler(yL, k * NdOf(mesh) + j), fct[k].uClipped[j])
            /\ InBounds(fct[k].uClipped[j], k * NdOf(mesh) + j)
            /\ InBounds(Euler(yL, k * NdOf(mesh) + j), k * NdOf(mesh) + j) =>
                   InBounds(Euler(y, k * NdOf(mesh) + j), k * NdOf(mesh) + j)

\* a dof whose result lies strictly between its low order value and its
\* clipped high order value (a part of the flux was kept), and a dof whose
\* low order value is within the bounds and whose high order value is not
C25_Witness ==
    /\ pc = "done"
    /\ \E k \in Elems(mesh) : \E j \in 0 .. NdOf(mesh) - 1 :
           /\ NLt(Euler(yL, k * NdOf(mesh) + j), Euler(y, k * NdOf(mesh) + j))
           /\ NLt(Euler(y, k * NdOf(mesh) + j), fct[k].uClipped[j])
    /\ \E d \in Dofs(mesh) :
           /\ InBounds(Euler(yL, d), d)
           /\ ~ InBounds(Euler(yH, d), d)
           /\ InBounds(Euler(y, d), d)


(* C26: the entries of NbrDof and the elements across the faces.           *)

\* the elements on the two sides of the face behind slot i of element k
SidesOf(m, k, i) == m.faces[m.bdrs[k][i]]

\* the slot lies on the boundary of the domain: the face has no second side
Exterior(m, k, i) == SidesOf(m, k, i)[2] < 0

\* n is the element on the other side of the face behind slot i of element k
AcrossFrom(m, k, i, n) ==
    /\ n \in Elems(m)
    /\ {SidesOf(m, k, i)[1], SidesOf(m, k, i)[2]} = {k, n}

\* C26: once FillNeighborDofs has run, in 1-D, 2-D and 3-D every entry of
\* NbrDof is negative on the slots without a neighbouring element and only
\* there, and every other entry lies inside the dof block of the element n
\* across the face, n*nd <= NbrDof < (n+1)*nd; so every entry LinearFluxLumping
\* uses as an index of x is an index of x.
C26_NbrDofNegativeOrInNeighbourBlock ==
    pc \in {"FillSubcell2CellDof", "built"} =>
        \A u \in DOMAIN NbrDof :
            /\ (NbrDof[u] < 0) <=> Exterior(mesh, u[1], u[2])
            /\ NbrDof[u] >= 0 =>
                  /\ NbrDof[u] \in Dofs(mesh)
                  /\ \E n \in Elems(mesh) :
                        /\ AcrossFrom(mesh, u[1], u[2], n)
                        /\ n * NdOf(mesh) <= NbrDof[u]
                        /\ NbrDof[u] < (n + 1) * NdOf(mesh)

\* a mesh with boundary whose exterior entry is below -1 next to an interior
\* entry inside the block of another element
C26_Witness ==
    /\ pc = "built"
    /\ \E u \in DOMAIN NbrDof : Exterior(mesh, u[1], u[2]) /\ NbrDof[u] < -1
    /\ \E u \in DOMAIN NbrDof :
          /\ NbrDof[u] >= 0
          /\ NbrDof[u] \div NdOf(mesh) # u[1]


-----------------------------------------------------------------------------
(* C27: what ComputeDiscreteUpwindingMatrix adds to K.                      *)

\* D_ij - K_ij, the amount added to the stored entry q
Correction(q) == NSub(D[q], K[q])

\* other contents D could have had before the call, on the sparsity of K
PreviousContents ==
    {[q \in DOMAIN K |-> NInt(7)], [q \in DOMAIN K |-> NNeg(K[q])],
     [q \in DOMAIN K |-> NInt(q[1] - 2 * q[2])]}

\* C27: the amount added off the diagonal is symmetric and not negative,
\* D_ij - K_ij = D_ji - K_ji >= 0 for all stored i # j; every row of D sums
\* to what the same row of K sums to; and the call returns the same D from
\* any previous contents of D, every stored entry being overwritten.
C27_SymmetricCorrectionKeepsRowSums ==
    pc = "upwinded" =>
        /\ \A q \in OffDiagonal(D) :
               /\ Correction(q) = Correction(<<q[2], q[1]>>)
               /\ NLeq(Zero, Correction(q))
        /\ \A i \in 0 .. MatSize(D) - 1 :
               /\ RowSum(D, i) = RowSum(K, i)
               /\ NSum([q \in DOMAIN D |-> Correction(q)],
                       {q \in DOMAIN D : q[1] = i}) = Zero
        /\ \A Dm \in PreviousContents :
               ComputeDiscreteUpwindingMatrix(K, smap, Dm) = D

\* a positive amount was added to two entries of K that differ, and taken
\* from the diagonal of a row whose entries of K do not sum to zero
C27_Witness ==
    /\ pc = "upwinded"
    /\ \E q \in OffDiagonal(D) :
           /\ NLt(Zero, Correction(q))
           /\ K[q] # K[<<q[2], q[1]>>]
           /\ NLt(Correction(<<q[1], q[1]>>), Zero)
           /\ RowSum(K, q[1]) # Zero
           /\ D # K


-----------------------------------------------------------------------------
(* C28: the subcell mesh and spaces of Assembly.                            *)

\* C28 as stated: in every configuration with subcells, in transport and in
\* remap mode, asmbl.subcell_mesh, SubFes0 and SubFes1 hold an assigned
\* pointer whenever ComputeLowOrderSolution is about to delete them.
C28_AssignedBeforeDeleted ==
    (/\ pc \in {"LowOrderOnly", "FCT_LowOrder"}
     /\ NeedSubcells(MonoType, OptScheme)
     /\ RebuildsSubcells(MonoType, exec_mode, OptScheme)) =>
        subcell_mesh # Unset


-----------------------------------------------------------------------------
(* SpecLoop: the time loop of main around ode_solver->Step, for drawn dt,   *)
(* t_final and number of stages of the solver.  pc = [at, ti, stage]; time  *)
(* is the t of main, dt the dt of FE_Evolution, lumpedM one positive entry, *)
(* fct the quotient lumpedM/dt of the last call of ComputeFCTSolution.      *)

MaxDtQuarters == 3     \* dt is drawn from 1/4 .. MaxDtQuarters/4
MaxFinalQuarters == 5  \* t_final is drawn from 0 .. MaxFinalQuarters/4
MaxStages == 2         \* calls of Mult in one Step of the solver

Quarters(a) == NDiv(NInt(a), NInt(4))

\* lumpedM(dofInd) / dt in double arithmetic: a positive number divided by
\* zero is +inf
DividedByDt(m, d) == IF d = Zero THEN PInf ELSE NDiv(m, d)

InitLoop ==
    /\ pc = [at |-> "loop", ti |-> 0, stage |-> 0]
    /\ TopoUnused /\ BndUnused /\ DUUnused
    /\ args \in [dt : {Quarters(a) : a \in 1 .. MaxDtQuarters},
                 t_final : {Quarters(a) : a \in 0 .. MaxFinalQuarters},
                 stages : 1 .. MaxStages]
    /\ MonoType \in {None, DiscUpw, DiscUpw_FCT, ResDist_FCT}
    /\ OptScheme = Unused /\ exec_mode = Unused
    /\ velocity = Unused /\ M = Unused
    /\ lumpedM = [d \in {0} |-> Quarters(2)]
    /\ b = Unused /\ bdrInt = Unused /\ SubcellWeights = Unused
    /\ dt = Unset
    /\ time = Zero
    /\ start_pos = Unused /\ vel_pos = Unused /\ mesh_pos = Unused
    /\ evals = Unused
    /\ VolumeTerms = Unused /\ subcell_mesh = Unused
    /\ z = Unused /\ x = Unused /\ y = Unused /\ yH = Unused /\ yL = Unused
    /\ fct = Unset
    /\ calls = <<>>
    /\ iter = Unused /\ resid = Unused /\ rd = Unused
    /\ rc = Unset /\ pk = Unset

loopFixed == <<topoVars, bndVars, duVars, MonoType, OptScheme, exec_mode,
               velocity, b, start_pos, vel_pos, mesh_pos, evals, VolumeTerms,
               M, lumpedM, bdrInt, SubcellWeights, subcell_mesh, z, x, y, yH,
               yL, iter, resid, rd, args>>

\* double dt_real = min(dt, t_final - t);  adv->SetDt(dt_real);
Loop_SetDt ==
    /\ pc.at = "loop"
    /\ dt' = NMin(args.dt, NSub(args.t_final, time))
    /\ calls' = Append(calls, "SetDt")
    /\ pc' = [pc EXCEPT !.at = "Step", !.stage = 0]
    /\ UNCHANGED <<loopFixed, pk, time, fct, rc>>

\* ode_solver->Step(u, t, dt_real): a stage of the solver calls Mult, whose
\* FCT branch ends in ComputeFCTSolution with lumpedM(dofInd) / dt
Step_Mult ==
    /\ pc.at = "Step" /\ pc.stage < args.stages
    /\ fct' = IF MultBranch(MonoType) = "fct"
              THEN DividedByDt(lumpedM[0], dt) ELSE fct
    /\ calls' = Append(calls, "Mult")
    /\ pc' = [pc EXCEPT !.stage = pc.stage + 1]
    /\ UNCHANGED <<loopFixed, pk, time, dt, rc>>

\* the solver returns with t advanced by dt_real;  ti++;
\* done = (t >= t_final - 1.e-8*dt), compared as t_final - t <= 1.e-8*dt
Step_Done ==
    /\ pc.at = "Step" /\ pc.stage = args.stages
    /\ time' = NAdd(time, dt)
    /\ pc' = [at |-> IF NLeq(NSub(args.t_final, NAdd(time, dt)),
                             NMul(NSci(1, -8), args.dt))
                     THEN "save" ELSE "loop",
              ti |-> pc.ti + 1, stage |-> 0]
    /\ UNCHANGED <<loopFixed, pk, dt, fct, calls, rc>>

\* the final solution is saved, everything is deleted;  return 0;
Loop_Return ==
    /\ pc.at = "save"
    /\ rc' = 0
    /\ pc' = [pc EXCEPT !.at = "return"]
    /\ UNCHANGED <<loopFixed, pk, time, dt, fct, calls>>

NextLoop == Loop_SetDt \/ Step_Mult \/ Step_Done \/ Loop_Return

SpecLoop == InitLoop /\ [][NextLoop]_vars

\* C29 as stated: for every dt > 0 and t_final >= 0, whenever the solver is
\* inside a step, SetDt has been called for this step with
\* min(dt, t_final - t) and this value is strictly positive, so that no call
\* of ComputeFCTSolution has divided by a time step that is not positive.
C29_PositiveTimeStep ==
    pc.at = "Step" =>
        /\ Len(calls) > pc.stage
        /\ calls[Len(calls) - pc.stage] = "SetDt"
        /\ dt = NMin(args.dt, NSub(args.t_final, time))
        /\ NLt(Zero, dt)
        /\ (pc.stage > 0 /\ MultBranch(MonoType) = "fct") => fct # PInf


-----------------------------------------------------------------------------
(* SpecShutdown: main from the setup of lom to return 0, for every          *)
(* configuration that has passed the checks of main.  pk is lom.pk: Unset   *)
(* while nothing was assigned to it, "BilinearForm" once allocated.         *)

\* lom.MonoType as the setup has it: MonoType after the check of main
SetupMonoType == CheckedMonoType(args.MonoType, args.order)

InitShutdown ==
    /\ pc = "lom"
    /\ TopoUnused /\ BndUnused /\ DUUnused
    /\ args \in [problem_num : {n \in ProblemNums : n < 20},
                 order : 0 .. MaxOrder, MonoType : 0 .. 4, OptScheme : BOOLEAN]
    /\ MonoType = CheckedMonoType(args.MonoType, args.order)
    /\ OptScheme = CheckedOptScheme(args.MonoType, args.OptScheme, args.order)
    /\ exec_mode = IF args.problem_num < 10 THEN 0 ELSE 1
    /\ velocity = Unused /\ M = Unused /\ lumpedM = Unused
    /\ b = Unused /\ bdrInt = Unused /\ SubcellWeights = Unused
    /\ dt = Unused /\ time = Unused /\ start_pos = Unused
    /\ vel_pos = Unused /\ mesh_pos = Unused /\ evals = Unused
    /\ VolumeTerms = Unset /\ subcell_mesh = Unset
    /\ z = Unused /\ x = Unused /\ y = Unused /\ yH = Unused /\ yL = Unused
    /\ fct = Unused /\ calls = Unused /\ iter = Unused /\ resid = Unused
    /\ rd = Unused
    /\ rc = Unset /\ pk = Unset

shutdownFixed == <<topoVars, bndVars, duVars, velocity, b, dt, time, start_pos,
                   vel_pos, evals, asmVars, SubcellWeights, vecVars, args,
                   OptScheme, exec_mode>>

\* if ((lom.MonoType == DiscUpw) || (lom.MonoType == DiscUpw_FCT))
\* { if (!lom.OptScheme) {..} else { lom.pk = new BilinearForm(&fes); .. } }
Main_Precompute ==
    /\ pc = "lom"
    /\ pk' = IF IsDU(MonoType) /\ OptScheme THEN "BilinearForm" ELSE pk
    /\ pc' = "subcells"
    /\ UNCHANGED <<shutdownFixed, MonoType, VolumeTerms, subcell_mesh, rc>>

\* if (NeedSubcells) { lom.VolumeTerms = ..; if (exec_mode == 0)
\* lom.subcell_mesh = GetSubcellMesh(mesh, order); }  Assembly asmbl(dofs, lom);
Main_NeedSubcells ==
    /\ pc = "subcells"
    /\ VolumeTerms' = IF NeedSubcells(MonoType, OptScheme)
                      THEN "MixedConvectionIntegrator" ELSE VolumeTerms
    /\ subcell_mesh' = IF NeedSubcells(MonoType, OptScheme) /\ exec_mode = 0
                       THEN "GetSubcellMesh" ELSE subcell_mesh
    /\ pc' = "loop"
    /\ UNCHANGED <<shutdownFixed, MonoType, rc, pk>>

\* for (int ti = 0; !done; ) { .. ode_solver->Step(u, t, dt_real); .. } runs
\* to its end; in remap mode the residual distribution step has rebuilt the
\* subcell mesh
Main_TimeLoop ==
    /\ pc = "loop"
    /\ subcell_mesh' = IF RebuildsSubcells(MonoType, exec_mode, OptScheme)
                       THEN "GetSubcellMesh" ELSE subcell_mesh
    /\ pc' = "shutdown"
    /\ UNCHANGED <<shutdownFixed, MonoType, VolumeTerms, rc, pk>>

\* the first delete asmbl.subcell_mesh in remap mode, of a pointer nothing
\* was assigned to, can end the run
Main_TimeLoopCrash ==
    /\ pc = "loop"
    /\ RebuildsSubcells(MonoType, exec_mode, OptScheme)
    /\ pc' = "crash"
    /\ UNCHANGED <<shutdownFixed, MonoType, VolumeTerms, subcell_mesh, rc, pk>>

\* if ( lom.OptScheme && ( (lom.MonoType == DiscUpw)
\*                      || (lom.MonoType = DiscUpw_FCT) ) ) { delete lom.pk; }
\* the second operand of || assigns DiscUpw_FCT, which is not zero; the
\* delete of a pointer nothing was assigned to can end the run
Main_DeletePk ==
    /\ pc = "shutdown"
    /\ MonoType' = IF OptScheme /\ MonoType # DiscUpw THEN DiscUpw_FCT
                   ELSE MonoType
    /\ IF ~ OptScheme
       THEN pk' = pk /\ pc' = "NeedSubcells"
       ELSE IF pk = "BilinearForm"
       THEN pk' = "deleted" /\ pc' = "NeedSubcells"
       ELSE pk' = "deleted unassigned" /\ pc' \in {"NeedSubcells", "crash"}
    /\ UNCHANGED <<shutdownFixed, VolumeTerms, subcell_mesh, rc>>

\* if (NeedSubcells) { delete asmbl.SubFes0; delete asmbl.SubFes1;
\* delete asmbl.VolumeTerms; delete asmbl.subcell_mesh; }  return 0;
Main_DeleteSubcells ==
    /\ pc = "NeedSubcells"
    /\ VolumeTerms' = IF NeedSubcells(SetupMonoType, OptScheme)
                      THEN "deleted" ELSE VolumeTerms
    /\ subcell_mesh' = IF NeedSubcells(SetupMonoType, OptScheme)
                       THEN "deleted" ELSE subcell_mesh
    /\ rc' = 0
    /\ pc' = "return"
    /\ UNCHANGED <<shutdownFixed, MonoType, pk>>

NextShutdown ==
    \/ Main_Precompute \/ Main_NeedSubcells \/ Main_TimeLoop
    \/ Main_TimeLoopCrash \/ Main_DeletePk \/ Main_DeleteSubcells

SpecShutdown == InitShutdown /\ [][NextShutdown]_vars

\* C30 as stated: at shutdown lom.pk is deleted if and only if the setup has
\* allocated it, which is when MonoType is DiscUpw or DiscUpw_FCT and
\* OptScheme is set; in every other configuration, the default ResDist_FCT
\* with OptScheme among them, nothing is deleted and MonoType stays as it was.
C30_PkDeletedIffAllocated ==
    pc \in {"NeedSubcells", "return"} =>
        /\ (pk \in {"deleted", "deleted unassigned"})
              <=> (IsDU(SetupMonoType) /\ OptScheme)
        /\ ~ (IsDU(SetupMonoType) /\ OptScheme) =>
              /\ pk = Unset
              /\ MonoType = SetupMonoType

====
